---- MODULE Spec2Model ----
(***************************************************************************)
(* PicoAPRS-RTOS-Firmware: the UBX protocol codec (libs/gps/Src/protocols/ *)
(* ubx/ubx.c), the MAX-M10S GPS driver built on it (libs/gps/Src/driver/   *)
(* max_m10s.c) and the interrupt-driven delay of the demo application      *)
(* (apps/gps_demo_app/gps_demo.c).                                         *)
(*                                                                         *)
(* Buffers are functions from byte offsets 0..127 to bytes, so every       *)
(* offset below is the C offset.  A null pointer is NULL.                  *)
(***************************************************************************)
EXTENDS Integers, Sequences, FiniteSets, TLC

VARIABLES
    build,       \* "BLOCKING" or "NON_BLOCKING": whether NON_BLOCKING is defined
    dev,         \* the max_m10s_dev_s instance the caller owns
    i2c,         \* the I2C peripheral: HAL state and the transfer in flight
    pc,          \* position of the caller inside a driver call ("idle" between calls)
    calls,       \* transport/delay/validate calls made by the current driver call
    ret,         \* operation and status of the last driver call that returned
    pre,         \* initialized/current_cmd of dev when the current call was entered
    initOkSeen,  \* some max_m10s_init call has returned UBLOX_OK
    rxFresh,     \* bytes were stored in rx_buffer since the last transmit call
    cbuf,        \* codec: the buffer the caller hands to the codec (or NULL)
    cfrm,        \* codec: arguments and returned size of the last builder call
    cval,        \* codec: arguments and returned status of the last validator call
    codecOps,    \* codec: number of codec calls made so far
    cflip,       \* codec: the bit of the buffer that line noise has flipped, if any
    g_delay_callback, \* delay: the registered callback (or NULL)
    g_delay_context,  \* delay: the registered context (or NULL)
    tim2,        \* delay: TIM2 is "RUNNING" or "STOPPED"
    tpc,         \* delay: position of the main context inside timer_delay_ms_it
    tlog,        \* delay: calls, elapsed events and callback invocations so far
    timerOps,    \* delay: number of delay calls and elapsed events so far
    uwTick,      \* wait: the HAL's millisecond tick counter, a uint32_t
    wpc,         \* wait: position inside i2c_wait_for_complete, start_time, result
    waited       \* wait: ticks counted since i2c_wait_for_complete was entered

driverVars == <<build, dev, i2c, pc, calls, ret, pre, initOkSeen, rxFresh>>
codecVars == <<cbuf, cfrm, cval, codecOps, cflip>>
timerVars == <<g_delay_callback, g_delay_context, tim2, tpc, tlog, timerOps>>
waitVars == <<uwTick, wpc, waited>>
vars == <<build, dev, i2c, pc, calls, ret, pre, initOkSeen, rxFresh, cbuf, cfrm, cval, codecOps, cflip,
          g_delay_callback, g_delay_context, tim2, tpc, tlog, timerOps,
          uwTick, wpc, waited>>

----------------------------------------------------------------------------
(* Constants of gps_types.h, ubx_defs.h and ubx_types.h *)

MAX_BUFFER_SIZE == 128
UBLOX_OK == 0
UBLOX_ERROR == 1
UBLOX_INVALID_PARAM == 2
UBLOX_TIMEOUT == 3
UBLOX_CHECKSUM_ERR == 4
UBLOX_I2C_ERROR == 5
GPS_CMD_PVT == 0

UBX_SYNC_CHAR_1 == 181
UBX_SYNC_CHAR_2 == 98
UBX_HEADER_LENGTH == 6
UBX_CHECKSUM_LENGTH == 2
UBX_MAX_PAYLOAD_LENGTH == MAX_BUFFER_SIZE - UBX_HEADER_LENGTH - UBX_CHECKSUM_LENGTH
UBX_NAV_PVT_LEN == 92
UBX_CLASS_NAV == 1
UBX_CLASS_ACK == 5
UBX_CLASS_CFG == 6
UBX_NAV_PVT == 7
UBX_CFG_VALSET == 138
UBX_ACK_ACK == 1
UBX_ACK_NACK == 0
UBX_CFG_LAYER_RAM == 1
UBX_CFG_LAYER_BBR == 16
UBX_CFG_I2C_UBX_ENABLE == 275906561
UBX_CFG_I2C_NMEA_DISABLE == 275906562
UBX_CFG_RATE_MEAS == 807469057

\* sizeof(ubx_frame_t), fixed to MAX_BUFFER_SIZE by the _Static_assert of ubx.h
SizeofFrame == MAX_BUFFER_SIZE

NULL == <<>>
Byte == 0..255
BufIdx == 0..(MAX_BUFFER_SIZE - 1)
ZeroBuffer == [i \in BufIdx |-> 0]

----------------------------------------------------------------------------
(* Checksum engine *)

\* ChecksumStep with the second accumulator adding the byte, not ckA.
ChecksumStep_BAddsByte(ck, byte) ==
    <<(ck[1] + byte) % 256, (ck[2] + byte) % 256>>

\* One iteration of the for loop of calc_checksum on the accumulators
\* ck = <<ckA, ckB>>: *ckA += byte; *ckB += *ckA (both uint8_t).
ChecksumStep(ck, byte) ==
    <<(ck[1] + byte) % 256, (ck[2] + ((ck[1] + byte) % 256)) % 256>>

RECURSIVE ChecksumLoop(_, _, _, _, _, _)
\* The for loop of calc_checksum, from iteration i with accumulators ckA, ckB
\* (written four iterations at a time; the accumulators are uint8_t).
ChecksumLoop(data, start, len, i, ckA, ckB) ==
    IF i >= len THEN <<ckA, ckB>>
    ELSE IF i + 4 > len
         THEN LET ck == ChecksumStep(<<ckA, ckB>>, data[start + i])
              IN CASE ck \in Byte \X Byte ->
                      ChecksumLoop(data, start, len, i + 1, ck[1], ck[2])
         ELSE LET ck == ChecksumStep(ChecksumStep(ChecksumStep(ChecksumStep(
                            <<ckA, ckB>>, data[start + i]), data[start + i + 1]),
                            data[start + i + 2]), data[start + i + 3])
              IN CASE ck \in Byte \X Byte ->
                      ChecksumLoop(data, start, len, i + 4, ck[1], ck[2])

\* calc_checksum(&data[start], len, &ckA, &ckB): the pair <<ckA, ckB>>.
calc_checksum(data, start, len) == ChecksumLoop(data, start, len, 0, 0, 0)

----------------------------------------------------------------------------
(* Frame builder.  Each builder gives [size, buffer]: the returned size    *)
(* and the buffer as the call leaves it.                                   *)

\* memset(frame, 0, sizeof(ubx_frame_t))
\* memset clearing the six header bytes only.
ClearFrame_HeaderOnly(buffer) ==
    [i \in BufIdx |-> IF i < UBX_HEADER_LENGTH THEN 0 ELSE buffer[i]]

ClearFrame(buffer) == [i \in BufIdx |-> IF i < SizeofFrame THEN 0 ELSE buffer[i]]

\* frame->len = len, a uint16_t of the packed frame at offsets 4..5 (little-endian target)
SetLen(buffer, len) == [buffer EXCEPT ![4] = len % 256, ![5] = (len \div 256) % 256]

\* frame->len read back from offsets 4..5
FrameLen(buffer) == buffer[4] + 256 * buffer[5]

\* AppendChecksum storing the two checksum bytes in the opposite order.
AppendChecksum_Swapped(buffer) ==
    LET len == buffer[4] + 256 * buffer[5]
        ck == calc_checksum(buffer, 2, len + 4)
    IN [buffer EXCEPT ![UBX_HEADER_LENGTH + len] = ck[2],
                      ![UBX_HEADER_LENGTH + len + 1] = ck[1]]

\* frame->payload.raw[len] = checksumA; frame->payload.raw[len + 1] = checksumB,
\* the checksum computed by calc_checksum(&frame->cls, frame->len + 4, ...)
AppendChecksum(buffer) ==
    LET len == FrameLen(buffer)
        ck == calc_checksum(buffer, 2, len + 4)
    IN [buffer EXCEPT ![UBX_HEADER_LENGTH + len] = ck[1],
                      ![UBX_HEADER_LENGTH + len + 1] = ck[2]]

\* ubx_prepare_command returning the size without the checksum bytes.
ubx_prepare_command_SizeWithoutChecksum(buffer, cls, id) ==
    IF buffer = NULL THEN [size |-> 0, buffer |-> buffer]
    ELSE LET hdr == [ClearFrame(buffer) EXCEPT ![0] = UBX_SYNC_CHAR_1,
                                               ![1] = UBX_SYNC_CHAR_2,
                                               ![2] = cls,
                                               ![3] = id]
             frame == AppendChecksum(SetLen(hdr, 0))
         IN [size |-> UBX_HEADER_LENGTH + FrameLen(frame), buffer |-> frame]

ubx_prepare_command(buffer, cls, id) ==
    IF buffer = NULL THEN [size |-> 0, buffer |-> buffer]
    ELSE LET hdr == [ClearFrame(buffer) EXCEPT ![0] = UBX_SYNC_CHAR_1,
                                               ![1] = UBX_SYNC_CHAR_2,
                                               ![2] = cls,
                                               ![3] = id]
             frame == AppendChecksum(SetLen(hdr, 0))
         IN [size |-> UBX_HEADER_LENGTH + FrameLen(frame) + UBX_CHECKSUM_LENGTH,
             buffer |-> frame]

\* ConfigHeader selecting the RAM layer only.
ConfigHeader_RamOnly(buffer, cfg_id) ==
    [ClearFrame(buffer) EXCEPT ![0] = UBX_SYNC_CHAR_1,
                               ![1] = UBX_SYNC_CHAR_2,
                               ![2] = UBX_CLASS_CFG,
                               ![3] = UBX_CFG_VALSET,
                               ![6] = 0,
                               ![7] = UBX_CFG_LAYER_RAM,
                               ![8] = 0,
                               ![9] = 0,
                               ![10] = cfg_id % 256,
                               ![11] = (cfg_id \div 256) % 256,
                               ![12] = (cfg_id \div 65536) % 256,
                               ![13] = (cfg_id \div 16777216) % 256]

\* The CFG-VALSET header and the 8 fixed payload bytes both config builders write:
\* version, layers, two reserved bytes, the key little-endian.
ConfigHeader(buffer, cfg_id) ==
    [ClearFrame(buffer) EXCEPT ![0] = UBX_SYNC_CHAR_1,
                               ![1] = UBX_SYNC_CHAR_2,
                               ![2] = UBX_CLASS_CFG,
                               ![3] = UBX_CFG_VALSET,
                               ![6] = 0,
                               ![7] = UBX_CFG_LAYER_RAM + UBX_CFG_LAYER_BBR,
                               ![8] = 0,
                               ![9] = 0,
                               ![10] = cfg_id % 256,
                               ![11] = (cfg_id \div 256) % 256,
                               ![12] = (cfg_id \div 65536) % 256,
                               ![13] = (cfg_id \div 16777216) % 256]

\* CopyValue storing the value bytes most significant first.
CopyValue_BigEndian(buffer, value_ptr, value_size) ==
    [i \in BufIdx |-> IF i >= 14 /\ i < 14 + value_size
                      THEN value_ptr[value_size - (i - 14)] ELSE buffer[i]]

\* memcpy(&payload[8], value_ptr, value_size): value_ptr is the sequence of
\* bytes found at that address.
CopyValue(buffer, value_ptr, value_size) ==
    [i \in BufIdx |-> IF i >= 14 /\ i < 14 + value_size
                      THEN value_ptr[i - 14 + 1] ELSE buffer[i]]

\* ubx_prepare_config_cmd_by_size clearing the frame before it looks at
\* value_ptr and value_size.
ubx_prepare_config_cmd_by_size_ClearsFirst(buffer, cfg_id, value_ptr, value_size) ==
    IF buffer = NULL THEN [size |-> 0, buffer |-> buffer]
    ELSE IF value_ptr = NULL \/ value_size > 4
    THEN [size |-> 0, buffer |-> ClearFrame(buffer)]
    ELSE LET body == CopyValue(ConfigHeader(buffer, cfg_id), value_ptr, value_size)
             frame == AppendChecksum(SetLen(body, 8 + value_size))
         IN [size |-> UBX_HEADER_LENGTH + FrameLen(frame) + UBX_CHECKSUM_LENGTH,
             buffer |-> frame]

ubx_prepare_config_cmd_by_size(buffer, cfg_id, value_ptr, value_size) ==
    IF buffer = NULL \/ value_ptr = NULL \/ value_size > 4
    THEN [size |-> 0, buffer |-> buffer]
    ELSE LET body == CopyValue(ConfigHeader(buffer, cfg_id), value_ptr, value_size)
             frame == AppendChecksum(SetLen(body, 8 + value_size))
         IN [size |-> UBX_HEADER_LENGTH + FrameLen(frame) + UBX_CHECKSUM_LENGTH,
             buffer |-> frame]

\* The bytes of an unsigned value of `width` bytes as they lie in memory at
\* &value on the little-endian Cortex-M target.
ObjectBytes(value, width) ==
    [i \in 1..width |-> (value \div (256 ^ (i - 1))) % 256]

ubx_prepare_config_cmd_u8(buffer, cfg_id, value) ==
    ubx_prepare_config_cmd_by_size(buffer, cfg_id, ObjectBytes(value, 1), 1)

\* ubx_prepare_config_cmd_u16 passing one byte of the value on.
ubx_prepare_config_cmd_u16_OneByte(buffer, cfg_id, value) ==
    ubx_prepare_config_cmd_by_size(buffer, cfg_id, ObjectBytes(value, 2), 1)

ubx_prepare_config_cmd_u16(buffer, cfg_id, value) ==
    ubx_prepare_config_cmd_by_size(buffer, cfg_id, ObjectBytes(value, 2), 2)

ubx_prepare_config_cmd_u32(buffer, cfg_id, value) ==
    ubx_prepare_config_cmd_by_size(buffer, cfg_id, ObjectBytes(value, 4), 4)

\* The legacy builder without the memset of the frame.
ubx_prepare_config_cmd_NoMemset(buffer, cfg_id, value) ==
    IF buffer = NULL THEN [size |-> 0, buffer |-> buffer]
    ELSE LET head == ConfigHeader(buffer, cfg_id)
             body == [i \in BufIdx |-> IF i < 14 THEN head[i]
                                       ELSE IF i = 14 THEN value ELSE buffer[i]]
             frame == AppendChecksum(SetLen(body, 9))
         IN [size |-> UBX_HEADER_LENGTH + FrameLen(frame) + UBX_CHECKSUM_LENGTH,
             buffer |-> frame]

\* The legacy builder, the one max_m10s_init calls.
ubx_prepare_config_cmd(buffer, cfg_id, value) ==
    IF buffer = NULL THEN [size |-> 0, buffer |-> buffer]
    ELSE LET body == [ConfigHeader(buffer, cfg_id) EXCEPT ![14] = value]
             frame == AppendChecksum(SetLen(body, 9))
         IN [size |-> UBX_HEADER_LENGTH + FrameLen(frame) + UBX_CHECKSUM_LENGTH,
             buffer |-> frame]

----------------------------------------------------------------------------
(* Frame validator *)

\* ubx_validate_packet requiring room for the header only.
ubx_validate_packet_HeaderSizeOnly(buffer, size, expected_cls, expected_id) ==
    IF buffer = NULL \/ size < UBX_HEADER_LENGTH
        THEN UBLOX_INVALID_PARAM
    ELSE IF buffer[0] # UBX_SYNC_CHAR_1 \/ buffer[1] # UBX_SYNC_CHAR_2
        THEN UBLOX_ERROR
    ELSE IF buffer[2] # expected_cls \/ buffer[3] # expected_id
        THEN UBLOX_ERROR
    ELSE IF buffer[4] + 256 * buffer[5] > UBX_MAX_PAYLOAD_LENGTH
        THEN UBLOX_ERROR
    ELSE IF size # UBX_HEADER_LENGTH + (buffer[4] + 256 * buffer[5]) + UBX_CHECKSUM_LENGTH
        THEN UBLOX_ERROR
    ELSE LET ck == calc_checksum(buffer, 2, buffer[4] + 256 * buffer[5] + 4)
         IN IF ck[1] # buffer[size - 2] \/ ck[2] # buffer[size - 1]
            THEN UBLOX_ERROR
            ELSE UBLOX_OK

\* ubx_validate_packet rejecting a payload of exactly the maximum length.
ubx_validate_packet_LengthBoundExclusive(buffer, size, expected_cls, expected_id) ==
    IF buffer = NULL \/ size < UBX_HEADER_LENGTH + UBX_CHECKSUM_LENGTH
        THEN UBLOX_INVALID_PARAM
    ELSE IF buffer[0] # UBX_SYNC_CHAR_1 \/ buffer[1] # UBX_SYNC_CHAR_2
        THEN UBLOX_ERROR
    ELSE IF buffer[2] # expected_cls \/ buffer[3] # expected_id
        THEN UBLOX_ERROR
    ELSE IF buffer[4] + 256 * buffer[5] >= UBX_MAX_PAYLOAD_LENGTH
        THEN UBLOX_ERROR
    ELSE IF size # UBX_HEADER_LENGTH + (buffer[4] + 256 * buffer[5]) + UBX_CHECKSUM_LENGTH
        THEN UBLOX_ERROR
    ELSE LET ck == calc_checksum(buffer, 2, buffer[4] + 256 * buffer[5] + 4)
         IN IF ck[1] # buffer[size - 2] \/ ck[2] # buffer[size - 1]
            THEN UBLOX_ERROR
            ELSE UBLOX_OK

\* ubx_validate_packet rejecting a checksum only when both bytes differ.
ubx_validate_packet_BothBytesDiffer(buffer, size, expected_cls, expected_id) ==
    IF buffer = NULL \/ size < UBX_HEADER_LENGTH + UBX_CHECKSUM_LENGTH
        THEN UBLOX_INVALID_PARAM
    ELSE IF buffer[0] # UBX_SYNC_CHAR_1 \/ buffer[1] # UBX_SYNC_CHAR_2
        THEN UBLOX_ERROR
    ELSE IF buffer[2] # expected_cls \/ buffer[3] # expected_id
        THEN UBLOX_ERROR
    ELSE IF buffer[4] + 256 * buffer[5] > UBX_MAX_PAYLOAD_LENGTH
        THEN UBLOX_ERROR
    ELSE IF size # UBX_HEADER_LENGTH + (buffer[4] + 256 * buffer[5]) + UBX_CHECKSUM_LENGTH
        THEN UBLOX_ERROR
    ELSE LET ck == calc_checksum(buffer, 2, buffer[4] + 256 * buffer[5] + 4)
         IN IF ck[1] # buffer[size - 2] /\ ck[2] # buffer[size - 1]
            THEN UBLOX_ERROR
            ELSE UBLOX_OK

ubx_validate_packet(buffer, size, expected_cls, expected_id) ==
    IF buffer = NULL \/ size < UBX_HEADER_LENGTH + UBX_CHECKSUM_LENGTH
        THEN UBLOX_INVALID_PARAM
    ELSE IF buffer[0] # UBX_SYNC_CHAR_1 \/ buffer[1] # UBX_SYNC_CHAR_2
        THEN UBLOX_ERROR
    ELSE IF buffer[2] # expected_cls \/ buffer[3] # expected_id
        THEN UBLOX_ERROR
    ELSE IF FrameLen(buffer) > UBX_MAX_PAYLOAD_LENGTH
        THEN UBLOX_ERROR
    ELSE IF size # UBX_HEADER_LENGTH + FrameLen(buffer) + UBX_CHECKSUM_LENGTH
        THEN UBLOX_ERROR
    ELSE LET ck == calc_checksum(buffer, 2, FrameLen(buffer) + 4)
         IN IF ck[1] # buffer[size - 2] \/ ck[2] # buffer[size - 1]
            THEN UBLOX_ERROR
            ELSE UBLOX_OK

\* The buffer indices ubx_validate_packet reads, the tests being made in
\* order and each || leaving its right side alone when the left one holds.
ubx_validate_packet_reads(buffer, size, expected_cls, expected_id) ==
    IF buffer = NULL \/ size < UBX_HEADER_LENGTH + UBX_CHECKSUM_LENGTH THEN {}
    ELSE IF buffer[0] # UBX_SYNC_CHAR_1 THEN {0}
    ELSE IF buffer[1] # UBX_SYNC_CHAR_2 THEN {0, 1}
    ELSE IF buffer[2] # expected_cls THEN {0, 1, 2}
    ELSE IF buffer[3] # expected_id THEN {0, 1, 2, 3}
    ELSE IF FrameLen(buffer) > UBX_MAX_PAYLOAD_LENGTH
              \/ size # UBX_HEADER_LENGTH + FrameLen(buffer) + UBX_CHECKSUM_LENGTH
        THEN 0..5
    ELSE 0..(FrameLen(buffer) + 5) \cup {size - 2, size - 1}

\* The buffer indices ubx_validate_ack reads: those of ubx_validate_packet,
\* then offset 3 when the packet was refused, offsets 6 and 7 otherwise.
ubx_validate_ack_reads(buffer, size, expected_cls, expected_id) ==
    ubx_validate_packet_reads(buffer, size, UBX_CLASS_ACK, UBX_ACK_ACK)
        \cup IF ubx_validate_packet(buffer, size, UBX_CLASS_ACK, UBX_ACK_ACK) # UBLOX_OK
             THEN {3}
             ELSE IF buffer[6] # expected_cls THEN {6} ELSE {6, 7}

\* ubx_validate_ack without the comparison of the echoed class and id.
ubx_validate_ack_NoEchoCheck(buffer, size, expected_cls, expected_id) ==
    LET status == ubx_validate_packet(buffer, size, UBX_CLASS_ACK, UBX_ACK_ACK)
    IN IF status # UBLOX_OK
       THEN IF buffer[3] = UBX_ACK_NACK THEN UBLOX_ERROR ELSE status
       ELSE UBLOX_OK

\* For a non-null buffer (a null one: ubx_validate_ack_results).
ubx_validate_ack(buffer, size, expected_cls, expected_id) ==
    LET status == ubx_validate_packet(buffer, size, UBX_CLASS_ACK, UBX_ACK_ACK)
    IN IF status # UBLOX_OK
       THEN IF buffer[3] = UBX_ACK_NACK THEN UBLOX_ERROR ELSE status
       ELSE IF buffer[6] # expected_cls \/ buffer[7] # expected_id
            THEN UBLOX_ERROR
            ELSE UBLOX_OK

----------------------------------------------------------------------------
(* The transport handed to the driver (STM32 HAL I2C) and the GPS module   *)
(* at the other end of the bus.                                            *)

HAL_OK == "HAL_OK"
HAL_ERROR == "HAL_ERROR"
HAL_BUSY == "HAL_BUSY"

\* Non-null references: the device instance, the bus handle, the functions.
DevPtr == <<"gps_dev">>
hi2c1 == <<"hi2c1">>
TransmitFn == <<"transmit">>
ReceiveFn == <<"receive">>
DelayFn == <<"HAL_Delay">>

\* A value of gps_cmd_type_e storage that is not GPS_CMD_PVT.
OtherCmd == GPS_CMD_PVT + 1

\* A frame as the module puts it on the wire: sync, class, id, length
\* (little-endian), payload, checksum.  A sequence of bytes.
DeviceFrame(cls, id, payload) ==
    LET len == Len(payload)
        body == <<cls, id, len % 256, len \div 256>> \o payload
        ck == calc_checksum(body, 1, Len(body))
    IN <<UBX_SYNC_CHAR_1, UBX_SYNC_CHAR_2>> \o body \o <<ck[1], ck[2]>>

\* What the module may have queued when the host reads: an ACK of the
\* CFG-VALSET command, a NACK of it, an ACK of some other command, a
\* NAV-PVT report, or nothing (the module then sends 0xFF).
DeviceQueue ==
    { DeviceFrame(UBX_CLASS_ACK, UBX_ACK_ACK, <<UBX_CLASS_CFG, UBX_CFG_VALSET>>),
      DeviceFrame(UBX_CLASS_ACK, UBX_ACK_NACK, <<UBX_CLASS_CFG, UBX_CFG_VALSET>>),
      DeviceFrame(UBX_CLASS_ACK, UBX_ACK_ACK, <<UBX_CLASS_NAV, UBX_NAV_PVT>>),
      DeviceFrame(UBX_CLASS_NAV, UBX_NAV_PVT, [i \in 1..UBX_NAV_PVT_LEN |-> 0]),
      <<>> }

\* The `size` bytes a read of that length clocks out of the module.
DeviceResponses(size) ==
    { [i \in 1..size |-> IF i <= Len(q) THEN q[i] ELSE 255] : q \in DeviceQueue }

\* The receive buffer once the HAL has stored `size` received bytes in it.
StoreReceived(buffer, data, size) ==
    [i \in BufIdx |-> IF i < size THEN data[i + 1] ELSE buffer[i]]

I2cReady == [state |-> "READY", size |-> 0]

\* GPS_TRANSMIT(dev, addr, data, size): the status returned and the bus
\* afterwards.  HAL_I2C_Master_Transmit returns when the transfer is over;
\* HAL_I2C_Master_Transmit_IT starts it when the peripheral is READY and
\* returns HAL_BUSY when it is not.
TransmitOutcomes(size) ==
    IF build = "BLOCKING"
    THEN { [hal |-> h, i2c |-> i2c] : h \in {HAL_OK, HAL_ERROR, HAL_BUSY} }
    ELSE IF i2c.state = "READY"
         THEN { [hal |-> HAL_OK, i2c |-> [state |-> "BUSY_TX", size |-> size]],
                [hal |-> HAL_ERROR, i2c |-> i2c] }
         ELSE { [hal |-> HAL_BUSY, i2c |-> i2c] }

\* GPS_RECEIVE(dev, addr, data, size): the status, the bus and the receive
\* buffer afterwards.
ReceiveOutcomes(buffer, size) ==
    IF build = "BLOCKING"
    THEN { [hal |-> HAL_OK, i2c |-> i2c, rx |-> StoreReceived(buffer, r, size),
            stored |-> TRUE] : r \in DeviceResponses(size) }
         \cup { [hal |-> h, i2c |-> i2c, rx |-> buffer, stored |-> FALSE] :
                    h \in {HAL_ERROR, HAL_BUSY} }
    ELSE IF i2c.state = "READY"
         THEN { [hal |-> HAL_OK, i2c |-> [state |-> "BUSY_RX", size |-> size],
                 rx |-> buffer, stored |-> FALSE],
                [hal |-> HAL_ERROR, i2c |-> i2c, rx |-> buffer, stored |-> FALSE] }
         ELSE { [hal |-> HAL_BUSY, i2c |-> i2c, rx |-> buffer, stored |-> FALSE] }

\* Entries of `calls`.
TransmitEv(addr, size, hal) ==
    [fn |-> "transmit", addr |-> addr, size |-> size, hal |-> hal, status |-> UBLOX_OK]
ReceiveEv(addr, size, hal) ==
    [fn |-> "receive", addr |-> addr, size |-> size, hal |-> hal, status |-> UBLOX_OK]
DelayEv(ms) ==
    [fn |-> "delay", addr |-> 0, size |-> ms, hal |-> HAL_OK, status |-> UBLOX_OK]
WaitEv(status) ==
    [fn |-> "wait", addr |-> 0, size |-> 0, hal |-> HAL_OK, status |-> status]
ValidateAckEv(size, status) ==
    [fn |-> "validate_ack", addr |-> 0, size |-> size, hal |-> HAL_OK, status |-> status]

----------------------------------------------------------------------------
(* Device driver *)

PcIdle == [at |-> "idle", phase |-> 0]

\* What `pre` keeps of the instance: its initialization state and current command.
Snapshot(d) == [initialized |-> d.initialized, current_cmd |-> d.current_cmd]

\* A driver call returns `status` to the caller.
Return(op, status) ==
    /\ pc' = PcIdle
    /\ ret' = [op |-> op, status |-> status]
    /\ initOkSeen' = (initOkSeen \/ (op = "init" /\ status = UBLOX_OK))

\* max_m10s_init without the test of init->delay_blocking.
InitParamsValid_NoDelayCheck(devp, init) ==
    /\ ~(devp = NULL \/ init = NULL \/ init.hi2c = NULL)
    /\ ~(init.transmit = NULL \/ init.receive = NULL)

\* max_m10s_init: the parameter checks
InitParamsValid(devp, init) ==
    /\ ~(devp = NULL \/ init = NULL \/ init.hi2c = NULL)
    /\ ~(init.transmit = NULL \/ init.receive = NULL \/ init.delay_blocking = NULL)

\* max_m10s_init without `dev->initialized = 0`.
InitResetDev_KeepInitialized(d, init) ==
    [d EXCEPT !.configs = [init EXCEPT !.device_address = (init.device_address * 2) % 256],
              !.tx_size = 0,
              !.rx_size = 0]

\* max_m10s_init storing the address as the caller gave it.
InitResetDev_AddressNotShifted(d, init) ==
    [d EXCEPT !.configs = init,
              !.initialized = 0,
              !.tx_size = 0,
              !.rx_size = 0]

\* max_m10s_init: copy the init record, shift the address, reset the state
InitResetDev(d, init) ==
    [d EXCEPT !.configs = [init EXCEPT !.device_address = (init.device_address * 2) % 256],
              !.initialized = 0,
              !.tx_size = 0,
              !.rx_size = 0]

\* max_m10s_init sending the UBX-enable key in both bring-up steps.
InitConfigKey_SameKeyTwice(phase) == UBX_CFG_I2C_UBX_ENABLE

\* max_m10s_init: the config command of bring-up step `phase`
InitConfigKey(phase) ==
    IF phase = 1 THEN UBX_CFG_I2C_UBX_ENABLE ELSE UBX_CFG_I2C_NMEA_DISABLE

InitConfigValue(phase) == IF phase = 1 THEN 1 ELSE 0

InitBuildCmd(d, phase) ==
    LET r == ubx_prepare_config_cmd(d.tx_buffer, InitConfigKey(phase), InitConfigValue(phase))
    IN [d EXCEPT !.tx_buffer = r.buffer, !.tx_size = r.size]

\* I2C_WAIT(dev) is i2c_wait_for_complete(dev) under NON_BLOCKING and empty otherwise.
HasWait == build = "NON_BLOCKING"

\* max_m10s_init with the receive issued right after the transmit, the
\* settling delay left out.
InitNextAt_NoDelay(at) ==
    CASE at = "transmit" -> IF HasWait THEN "wait_tx" ELSE "receive"
      [] at = "wait_tx" -> "receive"
      [] at = "delay" -> "receive"
      [] at = "receive" -> IF HasWait THEN "wait_rx" ELSE "validate_ack"
      [] at = "wait_rx" -> "validate_ack"

\* max_m10s_init issuing every receive a second time.
InitNextAt_ReceiveAgain(at) ==
    CASE at = "transmit" -> IF HasWait THEN "wait_tx" ELSE "delay"
      [] at = "wait_tx" -> "delay"
      [] at = "delay" -> "receive"
      [] at = "receive" -> IF calls[Len(calls)].fn # "receive" THEN "receive"
                           ELSE IF HasWait THEN "wait_rx" ELSE "validate_ack"
      [] at = "wait_rx" -> "validate_ack"

\* max_m10s_init: the statement that follows statement `at` within one
\* bring-up step (transmit, I2C_WAIT, delay, receive, I2C_WAIT, validate).
InitNextAt(at) ==
    CASE at = "transmit" -> IF HasWait THEN "wait_tx" ELSE "delay"
      [] at = "wait_tx" -> "delay"
      [] at = "delay" -> "receive"
      [] at = "receive" -> IF HasWait THEN "wait_rx" ELSE "validate_ack"
      [] at = "wait_rx" -> "validate_ack"

\* max_m10s_init going on after a failed receive.
InitReceiveFailed_Ignored(hal) == FALSE

\* max_m10s_init: the tests of hal_status and result, and what is returned
InitTransmitFailed(hal) == hal # HAL_OK
InitReceiveFailed(hal) == hal # HAL_OK
InitAckFailed(result) == result # UBLOX_OK
InitTransmitFailStatus == UBLOX_ERROR
InitReceiveFailStatus == UBLOX_I2C_ERROR

\* max_m10s_command without the test of dev->initialized.
CommandRejects_NullOnly(devp, d) == devp = NULL

\* max_m10s_command / max_m10s_read: the parameter check
CommandRejects(devp, d) == devp = NULL \/ d.initialized = 0
ReadRejects(devp, d) == devp = NULL \/ d.initialized = 0

\* max_m10s_init up to the first bus access: validate, store, reset, build.
max_m10s_init_enter(devp, init) ==
    /\ pc.at = "idle"
    /\ calls' = <<>>
    /\ pre' = Snapshot(dev)
    /\ IF ~InitParamsValid(devp, init)
       THEN /\ Return("init", UBLOX_INVALID_PARAM)
            /\ UNCHANGED dev
       ELSE /\ dev' = InitBuildCmd(InitResetDev(dev, init), 1)
            /\ pc' = [at |-> "transmit", phase |-> 1]
            /\ UNCHANGED <<ret, initOkSeen>>
    /\ UNCHANGED <<build, i2c, rxFresh, codecVars, timerVars, waitVars>>

\* hal_status = GPS_TRANSMIT(dev, address, tx_buffer, tx_size)
max_m10s_init_transmit ==
    /\ pc.at = "transmit"
    /\ \E o \in TransmitOutcomes(dev.tx_size) :
        /\ calls' = Append(calls, TransmitEv(dev.configs.device_address, dev.tx_size, o.hal))
        /\ i2c' = o.i2c
        /\ rxFresh' = FALSE
        /\ IF InitTransmitFailed(o.hal)
           THEN Return("init", InitTransmitFailStatus)
           ELSE /\ pc' = [pc EXCEPT !.at = InitNextAt("transmit")]
                /\ UNCHANGED <<ret, initOkSeen>>
    /\ UNCHANGED <<build, dev, pre, codecVars, timerVars, waitVars>>

\* I2C_WAIT(dev) in the NON_BLOCKING build: i2c_wait_for_complete returns
\* UBLOX_OK once the peripheral is READY, UBLOX_TIMEOUT when it stays busy
\* past the limit; max_m10s_init drops the value either way.
max_m10s_init_wait ==
    /\ pc.at \in {"wait_tx", "wait_rx"}
    /\ \/ /\ i2c.state = "READY"
          /\ calls' = Append(calls, WaitEv(UBLOX_OK))
       \/ /\ i2c.state # "READY"
          /\ calls' = Append(calls, WaitEv(UBLOX_TIMEOUT))
    /\ pc' = [pc EXCEPT !.at = InitNextAt(pc.at)]
    /\ UNCHANGED <<build, dev, i2c, ret, pre, initOkSeen, rxFresh, codecVars, timerVars, waitVars>>

\* dev->configs.delay_blocking(1000)
max_m10s_init_delay ==
    /\ pc.at = "delay"
    /\ calls' = Append(calls, DelayEv(1000))
    /\ pc' = [pc EXCEPT !.at = InitNextAt("delay")]
    /\ UNCHANGED <<build, dev, i2c, ret, pre, initOkSeen, rxFresh, codecVars, timerVars, waitVars>>

\* hal_status = GPS_RECEIVE(dev, address, rx_buffer, 10)
max_m10s_init_receive ==
    /\ pc.at = "receive"
    /\ \E o \in ReceiveOutcomes(dev.rx_buffer, 10) :
        /\ calls' = Append(calls, ReceiveEv(dev.configs.device_address, 10, o.hal))
        /\ i2c' = o.i2c
        /\ dev' = [dev EXCEPT !.rx_buffer = o.rx]
        /\ rxFresh' = (o.stored \/ rxFresh)
        /\ IF InitReceiveFailed(o.hal)
           THEN Return("init", InitReceiveFailStatus)
           ELSE /\ pc' = [pc EXCEPT !.at = InitNextAt("receive")]
                /\ UNCHANGED <<ret, initOkSeen>>
    /\ UNCHANGED <<build, pre, codecVars, timerVars, waitVars>>

\* result = ubx_validate_ack(rx_buffer, 10, CFG, VALSET), then either the
\* next bring-up command is built or the instance is marked initialized.
max_m10s_init_validate_ack ==
    /\ pc.at = "validate_ack"
    /\ LET result == ubx_validate_ack(dev.rx_buffer, 10, UBX_CLASS_CFG, UBX_CFG_VALSET)
       IN /\ calls' = Append(calls, ValidateAckEv(10, result))
          /\ IF InitAckFailed(result)
             THEN /\ Return("init", result)
                  /\ UNCHANGED dev
             ELSE IF pc.phase = 1
             THEN /\ dev' = InitBuildCmd(dev, 2)
                  /\ pc' = [at |-> "transmit", phase |-> 2]
                  /\ UNCHANGED <<ret, initOkSeen>>
             ELSE /\ dev' = [dev EXCEPT !.initialized = 1]
                  /\ Return("init", UBLOX_OK)
    /\ UNCHANGED <<build, i2c, pre, rxFresh, codecVars, timerVars, waitVars>>

\* max_m10s_command reporting every transmit outcome as success.
CommandStatus_AlwaysOk(hal) == UBLOX_OK

\* max_m10s_command: the status returned for the transmit's HAL status.
CommandStatus(hal) == IF hal # HAL_OK THEN UBLOX_I2C_ERROR ELSE UBLOX_OK

max_m10s_command(devp, cmd_type) ==
    /\ pc.at = "idle"
    /\ pre' = Snapshot(dev)
    /\ IF CommandRejects(devp, dev) \/ cmd_type # GPS_CMD_PVT
       THEN /\ Return("command", UBLOX_INVALID_PARAM)
            /\ calls' = <<>>
            /\ UNCHANGED <<dev, i2c, rxFresh>>
       ELSE LET r == ubx_prepare_command(dev.tx_buffer, UBX_CLASS_NAV, UBX_NAV_PVT)
            IN IF r.size = 0
               THEN /\ Return("command", UBLOX_ERROR)
                    /\ calls' = <<>>
                    /\ UNCHANGED <<dev, i2c, rxFresh>>
               ELSE \E o \in TransmitOutcomes(r.size) :
                    /\ dev' = [dev EXCEPT !.tx_buffer = r.buffer,
                                          !.tx_size = r.size,
                                          !.current_cmd = cmd_type]
                    /\ calls' = <<TransmitEv(dev.configs.device_address, r.size, o.hal)>>
                    /\ i2c' = o.i2c
                    /\ rxFresh' = FALSE
                    /\ Return("command", CommandStatus(o.hal))
    /\ UNCHANGED <<build, codecVars, timerVars, waitVars>>

\* max_m10s_read asking for the payload only, without header and checksum.
ReadSize_PayloadOnly == UBX_NAV_PVT_LEN

\* max_m10s_read counting the two sync bytes on top of the header length.
ReadSize_SyncCountedTwice == 2 + UBX_HEADER_LENGTH + UBX_NAV_PVT_LEN + UBX_CHECKSUM_LENGTH

\* max_m10s_read asking for a whole buffer and the checksum after it.
ReadSize_BufferPlusChecksum == MAX_BUFFER_SIZE + UBX_CHECKSUM_LENGTH

\* max_m10s_read: the response size expected for GPS_CMD_PVT.
ReadSize == UBX_HEADER_LENGTH + UBX_NAV_PVT_LEN + UBX_CHECKSUM_LENGTH

\* max_m10s_read: the status returned for the receive's HAL status.
ReadStatus(hal) == IF hal # HAL_OK THEN UBLOX_I2C_ERROR ELSE UBLOX_OK

\* max_m10s_read marking the instance uninitialized when the receive fails.
max_m10s_read_FailureUnreadies(devp) ==
    /\ pc.at = "idle"
    /\ pre' = Snapshot(dev)
    /\ IF ReadRejects(devp, dev) \/ dev.current_cmd # GPS_CMD_PVT
       THEN /\ Return("read", UBLOX_INVALID_PARAM)
            /\ calls' = <<>>
            /\ UNCHANGED <<dev, i2c, rxFresh>>
       ELSE LET size == ReadSize
            IN \E o \in ReceiveOutcomes(dev.rx_buffer, size) :
                    /\ dev' = [dev EXCEPT !.rx_size = size, !.rx_buffer = o.rx,
                                          !.initialized = IF o.hal # HAL_OK THEN 0 ELSE @]
                    /\ calls' = <<ReceiveEv(dev.configs.device_address, size, o.hal)>>
                    /\ i2c' = o.i2c
                    /\ rxFresh' = (o.stored \/ rxFresh)
                    /\ Return("read", ReadStatus(o.hal))
    /\ UNCHANGED <<build, codecVars, timerVars, waitVars>>

max_m10s_read(devp) ==
    /\ pc.at = "idle"
    /\ pre' = Snapshot(dev)
    /\ IF ReadRejects(devp, dev) \/ dev.current_cmd # GPS_CMD_PVT
       THEN /\ Return("read", UBLOX_INVALID_PARAM)
            /\ calls' = <<>>
            /\ UNCHANGED <<dev, i2c, rxFresh>>
       ELSE LET size == ReadSize
            IN \E o \in ReceiveOutcomes(dev.rx_buffer, size) :
                    /\ dev' = [dev EXCEPT !.rx_size = size, !.rx_buffer = o.rx]
                    /\ calls' = <<ReceiveEv(dev.configs.device_address, size, o.hal)>>
                    /\ i2c' = o.i2c
                    /\ rxFresh' = (o.stored \/ rxFresh)
                    /\ Return("read", ReadStatus(o.hal))
    /\ UNCHANGED <<build, codecVars, timerVars, waitVars>>

\* The interrupt that ends a transfer started by a _IT call: the peripheral
\* is READY again and, for a receive, the bytes are in the receive buffer.
I2cTransferComplete ==
    /\ i2c.state # "READY"
    /\ i2c' = I2cReady
    /\ IF i2c.state = "BUSY_RX"
       THEN /\ \E r \in DeviceResponses(i2c.size) :
                   dev' = [dev EXCEPT !.rx_buffer = StoreReceived(dev.rx_buffer, r, i2c.size)]
            /\ rxFresh' = TRUE
       ELSE UNCHANGED <<dev, rxFresh>>
    /\ UNCHANGED <<build, pc, calls, ret, pre, initOkSeen, codecVars, timerVars, waitVars>>

\* The interrupt that ends a transfer with a bus error: READY, nothing stored.
I2cTransferError ==
    /\ i2c.state # "READY"
    /\ i2c' = I2cReady
    /\ UNCHANGED <<build, dev, pc, calls, ret, pre, initOkSeen, rxFresh, codecVars, timerVars, waitVars>>

\* max_m10s_validate_response(dev, GPS_CMD_PVT): ubx_validate_packet on the
\* receive buffer, with the size max_m10s_read left in rx_size, against the
\* class and id of the NAV-PVT report.
max_m10s_validate_response(devp, cmd_type) ==
    /\ pc.at = "idle"
    /\ cmd_type = GPS_CMD_PVT
    /\ pre' = Snapshot(dev)
    /\ calls' = <<>>
    /\ Return("validate_response",
              ubx_validate_packet(dev.rx_buffer, dev.rx_size, UBX_CLASS_NAV, UBX_NAV_PVT))
    /\ UNCHANGED <<build, dev, i2c, rxFresh, codecVars, timerVars, waitVars>>

----------------------------------------------------------------------------
(* Measurement-rate configuration *)

\* Measurement rates in ms a caller asks for (100 ms = 10 Hz, 1000 ms = 1 Hz).
RateSamples == {100, 1000}

\* max_m10s_config_meas_rate up to the transmit: the CFG-VALSET command for
\* the rate key with the rate as its 2-byte value is built in tx_buffer.
max_m10s_config_meas_rate_enter(rate) ==
    /\ pc.at = "idle"
    /\ calls' = <<>>
    /\ pre' = Snapshot(dev)
    /\ LET r == ubx_prepare_config_cmd_u16(dev.tx_buffer, UBX_CFG_RATE_MEAS, rate)
       IN dev' = [dev EXCEPT !.tx_buffer = r.buffer, !.tx_size = r.size]
    /\ pc' = [at |-> "transmit", phase |-> 0]
    /\ UNCHANGED <<build, i2c, ret, initOkSeen, rxFresh, codecVars, timerVars, waitVars>>

\* The command is transmitted; a refused transmit ends the call as it
\* ends bring-up.
max_m10s_config_meas_rate_transmit ==
    /\ pc.at = "transmit"
    /\ \E o \in TransmitOutcomes(dev.tx_size) :
        /\ calls' = Append(calls, TransmitEv(dev.configs.device_address, dev.tx_size, o.hal))
        /\ i2c' = o.i2c
        /\ rxFresh' = FALSE
        /\ IF InitTransmitFailed(o.hal)
           THEN Return("config_meas_rate", InitTransmitFailStatus)
           ELSE /\ pc' = [pc EXCEPT !.at = InitNextAt("transmit")]
                /\ UNCHANGED <<ret, initOkSeen>>
    /\ UNCHANGED <<build, dev, pre, codecVars, timerVars, waitVars>>

\* I2C_WAIT(dev) after a transfer in the NON_BLOCKING build, as in bring-up.
max_m10s_config_meas_rate_wait ==
    /\ pc.at \in {"wait_tx", "wait_rx"}
    /\ \/ /\ i2c.state = "READY"
          /\ calls' = Append(calls, WaitEv(UBLOX_OK))
       \/ /\ i2c.state # "READY"
          /\ calls' = Append(calls, WaitEv(UBLOX_TIMEOUT))
    /\ pc' = [pc EXCEPT !.at = InitNextAt(pc.at)]
    /\ UNCHANGED <<build, dev, i2c, ret, pre, initOkSeen, rxFresh, codecVars, timerVars, waitVars>>

\* The settling delay of bring-up.
max_m10s_config_meas_rate_delay ==
    /\ pc.at = "delay"
    /\ calls' = Append(calls, DelayEv(1000))
    /\ pc' = [pc EXCEPT !.at = InitNextAt("delay")]
    /\ UNCHANGED <<build, dev, i2c, ret, pre, initOkSeen, rxFresh, codecVars, timerVars, waitVars>>

\* The 10-byte response is received; a refused receive ends the call as it
\* ends bring-up.
max_m10s_config_meas_rate_receive ==
    /\ pc.at = "receive"
    /\ \E o \in ReceiveOutcomes(dev.rx_buffer, 10) :
        /\ calls' = Append(calls, ReceiveEv(dev.configs.device_address, 10, o.hal))
        /\ i2c' = o.i2c
        /\ dev' = [dev EXCEPT !.rx_buffer = o.rx]
        /\ rxFresh' = (o.stored \/ rxFresh)
        /\ IF InitReceiveFailed(o.hal)
           THEN Return("config_meas_rate", InitReceiveFailStatus)
           ELSE /\ pc' = [pc EXCEPT !.at = InitNextAt("receive")]
                /\ UNCHANGED <<ret, initOkSeen>>
    /\ UNCHANGED <<build, pre, codecVars, timerVars, waitVars>>

\* The response is validated as the ACK for (CFG, VALSET) and the
\* validator's status returned.
max_m10s_config_meas_rate_validate_ack ==
    /\ pc.at = "validate_ack"
    /\ LET result == ubx_validate_ack(dev.rx_buffer, 10, UBX_CLASS_CFG, UBX_CFG_VALSET)
       IN /\ calls' = Append(calls, ValidateAckEv(10, result))
          /\ Return("config_meas_rate", result)
    /\ UNCHANGED <<build, dev, i2c, pre, rxFresh, codecVars, timerVars, waitVars>>

----------------------------------------------------------------------------
(* The caller *)

\* The init record of the demo (gps_simple_test): bus handle, address 0x42,
\* timeout 1000 ms, the HAL transfer functions and HAL_Delay.
GpsInit(addr) ==
    [hi2c |-> hi2c1, transmit |-> TransmitFn, receive |-> ReceiveFn,
     delay_blocking |-> DelayFn, device_address |-> addr, timeout_ms |-> 1000]

\* 7-bit device addresses the caller configures.
InitAddrs == {66, 127}

\* Init records a caller may pass: complete ones, ones with one reference
\* missing, and none at all.
InitRecords ==
    { GpsInit(a) : a \in InitAddrs }
    \cup { [GpsInit(66) EXCEPT !.hi2c = NULL],
           [GpsInit(66) EXCEPT !.transmit = NULL],
           [GpsInit(66) EXCEPT !.receive = NULL],
           [GpsInit(66) EXCEPT !.delay_blocking = NULL],
           NULL }

CmdTypes == {GPS_CMD_PVT, OtherCmd}

\* A max_m10s_dev_s before any max_m10s_init: zeroed storage, with the
\* current_cmd field holding cmd.
FreshDev(cmd) ==
    [initialized |-> 0,
     current_cmd |-> cmd,
     configs |-> [hi2c |-> NULL, transmit |-> NULL, receive |-> NULL,
                  delay_blocking |-> NULL, device_address |-> 0, timeout_ms |-> 0],
     tx_buffer |-> ZeroBuffer,
     rx_buffer |-> ZeroBuffer,
     tx_size |-> 0,
     rx_size |-> 0]

InitDriver ==
    /\ build \in {"BLOCKING", "NON_BLOCKING"}
    /\ dev \in {FreshDev(c) : c \in CmdTypes}
    /\ i2c = I2cReady
    /\ pc = PcIdle
    /\ calls = <<>>
    /\ ret = [op |-> "none", status |-> UBLOX_OK]
    /\ pre = Snapshot(dev)
    /\ initOkSeen = FALSE
    /\ rxFresh = FALSE

\* No builder call yet / no validator call since the last builder call.
NoFrame ==
    [op |-> "none", cls |-> 0, id |-> 0, cfg_id |-> 0, value |-> 0,
     value_ptr |-> NULL, value_size |-> 0, size |-> 0, prev |-> 0]
NoValidation == [op |-> "none", size |-> 0, cls |-> 0, id |-> 0, status |-> UBLOX_OK]
\* No bit of the buffer has been disturbed.
NoFlip == <<>>

CodecIdle ==
    /\ cbuf = NULL
    /\ cfrm = NoFrame
    /\ cval = NoValidation
    /\ codecOps = 0
    /\ cflip = NoFlip

----------------------------------------------------------------------------
(* The interrupt-driven delay of gps_demo.c: timer_delay_ms_it runs in the  *)
(* main context, app_timer_elapsed_hook in the TIM2 interrupt, which can    *)
(* preempt the main context between any two of its statements.             *)

\* Number of delay calls and elapsed events one behaviour makes.
MaxTimerOps == 4

htim2 == <<"htim2">>
TimInstances == {"TIM2", "TIM3"}

\* Callbacks the application registers: one that only notes that the delay
\* is over, one that arms the next delay from inside the callback.
OnDelayDone == <<"on_delay_done">>
OnDelayChain == <<"on_delay_chain">>
Callbacks == {OnDelayDone, OnDelayChain}
Contexts == {<<"ctx_a">>, <<"ctx_b">>}

\* Arguments the application passes to timer_delay_ms_it.
DelayArgs ==
    { [htim |-> htim2, delay_ms |-> 1000, callback |-> OnDelayDone, context |-> cx] :
          cx \in Contexts }
    \cup { [htim |-> htim2, delay_ms |-> 1000, callback |-> OnDelayChain,
            context |-> <<"ctx_b">>] }
    \cup { [htim |-> NULL, delay_ms |-> 1000, callback |-> OnDelayDone, context |-> <<"ctx_a">>],
           [htim |-> htim2, delay_ms |-> 1001, callback |-> OnDelayDone, context |-> <<"ctx_a">>],
           [htim |-> htim2, delay_ms |-> 1000, callback |-> NULL, context |-> <<"ctx_a">>] }

\* What HAL_TIM_Base_Start_IT returns.
StartOutcomes == {HAL_OK, HAL_ERROR}

\* Entries of tlog.
ArmEnterEv(htim, delay_ms, callback, context) ==
    [ev |-> "arm_enter", callback |-> callback, context |-> context, status |-> HAL_OK,
     htim |-> htim, delay_ms |-> delay_ms, inst |-> "none"]
ArmReturnEv(callback, context, status) ==
    [ev |-> "arm_return", callback |-> callback, context |-> context, status |-> status,
     htim |-> NULL, delay_ms |-> 0, inst |-> "none"]
ElapsedEv(inst) ==
    [ev |-> "elapsed", callback |-> NULL, context |-> NULL, status |-> HAL_OK,
     htim |-> NULL, delay_ms |-> 0, inst |-> inst]
CallbackEv(callback, context) ==
    [ev |-> "callback", callback |-> callback, context |-> context, status |-> HAL_OK,
     htim |-> NULL, delay_ms |-> 0, inst |-> "none"]

TpcIdle == [at |-> "idle", callback |-> NULL, context |-> NULL, rest |-> "none"]

TimerIdle ==
    /\ g_delay_callback = NULL
    /\ g_delay_context = NULL
    /\ tim2 = "STOPPED"
    /\ tpc = TpcIdle
    /\ tlog = <<>>
    /\ timerOps = 0

\* timer_delay_ms_it refusing a new delay while one is registered.
DelayArgsValid_RefusesWhilePending(htim, delay_ms, callback) ==
    /\ ~(htim = NULL \/ delay_ms > 1000 \/ callback = NULL)
    /\ g_delay_callback = NULL

\* timer_delay_ms_it: the parameter check.
DelayArgsValid(htim, delay_ms, callback) ==
    ~(htim = NULL \/ delay_ms > 1000 \/ callback = NULL)

\* timer_delay_ms_it up to the first of its two stores.  The two stores are
\* plain writes to file-scope variables, so either may reach memory first.
timer_delay_ms_it_enter(a) ==
    /\ tpc.at = "idle"
    /\ timerOps < MaxTimerOps
    /\ timerOps' = timerOps + 1
    /\ IF ~DelayArgsValid(a.htim, a.delay_ms, a.callback)
       THEN /\ tlog' = tlog \o <<ArmEnterEv(a.htim, a.delay_ms, a.callback, a.context),
                                 ArmReturnEv(a.callback, a.context, HAL_ERROR)>>
            /\ UNCHANGED <<g_delay_callback, g_delay_context, tpc>>
       ELSE /\ tlog' = Append(tlog, ArmEnterEv(a.htim, a.delay_ms, a.callback, a.context))
            /\ \/ /\ g_delay_callback' = a.callback
                  /\ UNCHANGED g_delay_context
                  /\ tpc' = [at |-> "store", callback |-> a.callback,
                             context |-> a.context, rest |-> "context"]
               \/ /\ g_delay_context' = a.context
                  /\ UNCHANGED g_delay_callback
                  /\ tpc' = [at |-> "store", callback |-> a.callback,
                             context |-> a.context, rest |-> "callback"]
    /\ UNCHANGED <<tim2, driverVars, codecVars, waitVars>>

\* timer_delay_ms_it: the second of the two stores.
timer_delay_ms_it_store ==
    /\ tpc.at = "store"
    /\ IF tpc.rest = "context"
       THEN g_delay_context' = tpc.context /\ UNCHANGED g_delay_callback
       ELSE g_delay_callback' = tpc.callback /\ UNCHANGED g_delay_context
    /\ tpc' = [tpc EXCEPT !.at = "start", !.rest = "none"]
    /\ UNCHANGED <<tim2, tlog, timerOps, driverVars, codecVars, waitVars>>

\* timer_delay_ms_it: program the period, clear the flag, enable the
\* interrupt and return HAL_TIM_Base_Start_IT(htim).
timer_delay_ms_it_start ==
    /\ tpc.at = "start"
    /\ \E status \in StartOutcomes :
        /\ tim2' = IF status = HAL_OK THEN "RUNNING" ELSE tim2
        /\ tlog' = Append(tlog, ArmReturnEv(tpc.callback, tpc.context, status))
    /\ tpc' = TpcIdle
    /\ UNCHANGED <<g_delay_callback, g_delay_context, timerOps, driverVars, codecVars, waitVars>>

\* What the callback leaves registered and the events it adds to tlog.
\* on_delay_done registers nothing; on_delay_chain calls timer_delay_ms_it
\* with on_delay_done and its own context, which runs to its end inside the
\* interrupt.
CallbackRuns(callback, context, status) ==
    IF callback = OnDelayChain
    THEN [slot |-> <<OnDelayDone, context>>,
          tim |-> IF status = HAL_OK THEN "RUNNING" ELSE "STOPPED",
          log |-> <<ArmEnterEv(htim2, 1000, OnDelayDone, context),
                    ArmReturnEv(OnDelayDone, context, status)>>]
    ELSE [slot |-> <<NULL, NULL>>, tim |-> "STOPPED", log |-> <<>>]

\* app_timer_elapsed_hook clearing the registration after the callback has
\* returned.
HookSlot_ClearedAfterCall(ran) == <<NULL, NULL>>

\* app_timer_elapsed_hook: the registration when the hook returns.  It was
\* cleared before the callback was called, so it is what the callback left.
HookSlot(ran) == ran.slot

\* app_timer_elapsed_hook(htim) with htim->Instance = inst.
app_timer_elapsed_hook(inst) ==
    /\ timerOps < MaxTimerOps
    /\ timerOps' = timerOps + 1
    /\ IF inst # "TIM2"
       THEN /\ tlog' = Append(tlog, ElapsedEv(inst))
            /\ UNCHANGED <<g_delay_callback, g_delay_context, tim2>>
       ELSE IF g_delay_callback = NULL
       THEN /\ tlog' = Append(tlog, ElapsedEv(inst))
            /\ tim2' = "STOPPED"
            /\ UNCHANGED <<g_delay_callback, g_delay_context>>
       ELSE \E status \in StartOutcomes :
            LET ran == CallbackRuns(g_delay_callback, g_delay_context, status)
            IN /\ tlog' = tlog \o <<ElapsedEv(inst),
                                    CallbackEv(g_delay_callback, g_delay_context)>>
                               \o ran.log
               /\ g_delay_callback' = HookSlot(ran)[1]
               /\ g_delay_context' = HookSlot(ran)[2]
               /\ tim2' = ran.tim
    /\ UNCHANGED <<tpc, driverVars, codecVars, waitVars>>

(* i2c_wait_for_complete *)

\* uint32_t values are pairs <<high half, low half>> of 16-bit numbers;
\* the arithmetic on them is that of unsigned 32-bit integers.
Half == 65536

\* a + n modulo 2^32, for n below 2^16.
Add32(a, n) ==
    LET lo == a[2] + n
    IN <<(a[1] + lo \div Half) % Half, lo % Half>>

\* a - b modulo 2^32.
Sub32(a, b) ==
    LET lo == a[2] - b[2]
        borrow == IF lo < 0 THEN 1 ELSE 0
    IN <<(a[1] - b[1] - borrow + Half) % Half, (lo + Half) % Half>>

\* a > b for two uint32_t values.
Gt32(a, b) == a[1] > b[1] \/ (a[1] = b[1] /\ a[2] > b[2])

\* uint32_t timeout = 1000
WaitTimeout == 1000

\* The test written as a comparison of the tick with a deadline,
\* HAL_GetTick() > start_time + timeout.
WaitTimedOut_DeadlineCompare(now, start_time) ==
    Gt32(now, Add32(start_time, WaitTimeout))

\* HAL_GetTick() - start_time > timeout, in uint32_t arithmetic.
WaitTimedOut(now, start_time) == Gt32(Sub32(now, start_time), <<0, WaitTimeout>>)

\* The busy-wait loop reads the tick again at most this many ticks after
\* the timeout has passed.
MaxOvershoot == 2

\* Tick values at which the wait is entered: just after reset, with the
\* low half about to carry, and within 1000 ticks of the wrap to 0.
TickSamples == { <<0, 0>>, <<7, Half - 400>>, <<Half - 1, Half - 600>> }

WpcIdle == [at |-> "idle", start_time |-> <<0, 0>>, seen |-> "none", status |-> UBLOX_OK]

WaitIdle ==
    /\ uwTick = <<0, 0>>
    /\ wpc = WpcIdle
    /\ waited = 0

\* uint32_t start_time = HAL_GetTick()
i2c_wait_for_complete_enter ==
    /\ wpc.at = "idle"
    /\ wpc' = [wpc EXCEPT !.at = "get_state", !.start_time = uwTick]
    /\ waited' = 0
    /\ UNCHANGED <<uwTick, driverVars, codecVars, timerVars>>

\* while (HAL_I2C_GetState(hi2c) != HAL_I2C_STATE_READY): the loop ends
\* with return UBLOX_OK when the state read is READY.
i2c_wait_for_complete_get_state ==
    /\ wpc.at = "get_state"
    /\ wpc' = IF i2c.state = "READY"
              THEN [wpc EXCEPT !.at = "done", !.seen = i2c.state, !.status = UBLOX_OK]
              ELSE [wpc EXCEPT !.at = "get_tick", !.seen = i2c.state]
    /\ UNCHANGED <<uwTick, waited, driverVars, codecVars, timerVars>>

\* if (HAL_GetTick() - start_time > timeout) return UBLOX_TIMEOUT;
i2c_wait_for_complete_get_tick ==
    /\ wpc.at = "get_tick"
    /\ wpc' = IF WaitTimedOut(uwTick, wpc.start_time)
              THEN [wpc EXCEPT !.at = "done", !.status = UBLOX_TIMEOUT]
              ELSE [wpc EXCEPT !.at = "get_state"]
    /\ UNCHANGED <<uwTick, waited, driverVars, codecVars, timerVars>>

\* The SysTick interrupt: the tick counter advances by one, wrapping to 0
\* after 2^32 - 1.
HAL_IncTick ==
    /\ wpc.at \in {"get_state", "get_tick"}
    /\ waited < WaitTimeout + MaxOvershoot
    /\ uwTick' = Add32(uwTick, 1)
    /\ waited' = waited + 1
    /\ UNCHANGED <<wpc, driverVars, codecVars, timerVars>>

\* The caller waits for a transfer (or for none) on an instance that
\* max_m10s_init has brought up; the transfer may end, fail or hang.
InitWait ==
    /\ build = "NON_BLOCKING"
    /\ dev = [InitBuildCmd(InitResetDev(FreshDev(GPS_CMD_PVT), GpsInit(66)), 2)
                  EXCEPT !.initialized = 1]
    /\ i2c \in {I2cReady, [state |-> "BUSY_TX", size |-> 8], [state |-> "BUSY_RX", size |-> 10]}
    /\ pc = PcIdle
    /\ calls = <<>>
    /\ ret = [op |-> "init", status |-> UBLOX_OK]
    /\ pre = Snapshot(dev)
    /\ initOkSeen = TRUE
    /\ rxFresh = FALSE
    /\ CodecIdle
    /\ TimerIdle
    /\ uwTick \in TickSamples
    /\ wpc = WpcIdle
    /\ waited = 0

NextWait ==
    \/ i2c_wait_for_complete_enter
    \/ i2c_wait_for_complete_get_state
    \/ i2c_wait_for_complete_get_tick
    \/ HAL_IncTick
    \/ I2cTransferComplete
    \/ I2cTransferError

\* The processor keeps executing the loop and the tick keeps advancing.
SpecWait ==
    /\ InitWait
    /\ [][NextWait]_vars
    /\ WF_vars(i2c_wait_for_complete_get_state)
    /\ WF_vars(i2c_wait_for_complete_get_tick)
    /\ WF_vars(HAL_IncTick)

----------------------------------------------------------------------------
Init == InitDriver /\ CodecIdle /\ TimerIdle /\ WaitIdle

Next ==
    \/ \E devp \in {NULL, DevPtr}, init \in InitRecords : max_m10s_init_enter(devp, init)
    \/ max_m10s_init_transmit
    \/ max_m10s_init_wait
    \/ max_m10s_init_delay
    \/ max_m10s_init_receive
    \/ max_m10s_init_validate_ack
    \/ \E devp \in {NULL, DevPtr}, cmd_type \in CmdTypes : max_m10s_command(devp, cmd_type)
    \/ \E devp \in {NULL, DevPtr} : max_m10s_read(devp)
    \/ I2cTransferComplete
    \/ I2cTransferError

Spec == Init /\ [][Next]_vars

\* Measurement-rate configuration on an instance max_m10s_init has brought
\* up, the way gps_demo_run calls it.
InitRate ==
    /\ build \in {"BLOCKING", "NON_BLOCKING"}
    /\ \E a \in InitAddrs :
          dev = [InitBuildCmd(InitResetDev(FreshDev(GPS_CMD_PVT), GpsInit(a)), 2)
                     EXCEPT !.initialized = 1]
    /\ i2c = I2cReady
    /\ pc = PcIdle
    /\ calls = <<>>
    /\ ret = [op |-> "init", status |-> UBLOX_OK]
    /\ pre = Snapshot(dev)
    /\ initOkSeen = TRUE
    /\ rxFresh = FALSE
    /\ CodecIdle
    /\ TimerIdle
    /\ WaitIdle

NextRate ==
    \/ \E rate \in RateSamples : max_m10s_config_meas_rate_enter(rate)
    \/ max_m10s_config_meas_rate_transmit
    \/ max_m10s_config_meas_rate_wait
    \/ max_m10s_config_meas_rate_delay
    \/ max_m10s_config_meas_rate_receive
    \/ max_m10s_config_meas_rate_validate_ack
    \/ I2cTransferComplete
    \/ I2cTransferError

SpecRate == InitRate /\ [][NextRate]_vars

\* The command / read / validate cycle of gps_demo_run on an instance
\* max_m10s_init has brought up.
NextCycle ==
    \/ \E cmd_type \in CmdTypes : max_m10s_command(DevPtr, cmd_type)
    \/ max_m10s_read(DevPtr)
    \/ max_m10s_validate_response(DevPtr, GPS_CMD_PVT)
    \/ I2cTransferComplete
    \/ I2cTransferError

SpecCycle == InitRate /\ [][NextCycle]_vars

\* The delay on its own: the driver and the codec stay idle.
InitTimer ==
    /\ build = "NON_BLOCKING"
    /\ dev = FreshDev(GPS_CMD_PVT)
    /\ i2c = I2cReady
    /\ pc = PcIdle
    /\ calls = <<>>
    /\ ret = [op |-> "none", status |-> UBLOX_OK]
    /\ pre = Snapshot(dev)
    /\ initOkSeen = FALSE
    /\ rxFresh = FALSE
    /\ CodecIdle
    /\ TimerIdle
    /\ WaitIdle

NextTimer ==
    \/ \E a \in DelayArgs : timer_delay_ms_it_enter(a)
    \/ timer_delay_ms_it_store
    \/ timer_delay_ms_it_start
    \/ \E inst \in TimInstances : app_timer_elapsed_hook(inst)

SpecTimer == InitTimer /\ [][NextTimer]_vars

----------------------------------------------------------------------------
(* The codec on its own: a caller that builds frames into a buffer and     *)
(* validates what the buffer holds.  The driver stays idle.                *)

\* Number of codec calls one behaviour makes.
MaxCodecOps == 2

\* Class, id and expected class/id bytes the caller passes.
ByteSamples == {0, 1, 6, 7, 138, 255}

\* Configuration keys: two of ubx_cfg_id_e and a key whose four bytes all
\* differ (0x01020304).
KeySamples == {UBX_CFG_I2C_UBX_ENABLE, UBX_CFG_RATE_MEAS, 16909060}

\* Values of each width; 32-bit values stay below 2^31.
ValueSamples(width) ==
    CASE width = 1 -> {0, 1, 128, 255}
      [] width = 2 -> {1, 256, 4660, 65535}
      [] OTHER -> {1, 16909060, 2147483647}

\* value_ptr arguments: null, or the address of a 4-byte object.
ValuePtrSamples == {NULL} \cup { ObjectBytes(v, 4) : v \in {16909060, 2147483647} }

\* value_size arguments (a uint8_t).
WidthSamples == {0, 1, 2, 3, 4, 5}

\* A buffer of MAX_BUFFER_SIZE bytes left over from earlier use.
StaleBuffer == [i \in BufIdx |-> 170]

\* The value held by the first `width` bytes of memory bytes `mem`, read
\* little-endian.
RECURSIVE MemValue(_, _)
MemValue(mem, width) ==
    IF width = 0 THEN 0
    ELSE MemValue(mem, width - 1) + mem[width] * (256 ^ (width - 1))

InitCodec ==
    /\ build = "BLOCKING"
    /\ dev = FreshDev(GPS_CMD_PVT)
    /\ i2c = I2cReady
    /\ pc = PcIdle
    /\ calls = <<>>
    /\ ret = [op |-> "none", status |-> UBLOX_OK]
    /\ pre = Snapshot(dev)
    /\ initOkSeen = FALSE
    /\ rxFresh = FALSE
    /\ cbuf \in {NULL, ZeroBuffer, StaleBuffer}
    /\ cfrm = NoFrame
    /\ cval = NoValidation
    /\ codecOps = 0
    /\ cflip = NoFlip
    /\ TimerIdle
    /\ WaitIdle

\* The caller makes another codec call.
CodecCall == codecOps < MaxCodecOps

\* A builder call returned r = [size, buffer]; frm records its arguments
\* and, as prev, the size the builder call before it returned.
Built(frm, r) ==
    /\ cbuf' = r.buffer
    /\ cfrm' = [frm EXCEPT !.size = r.size, !.prev = cfrm.size]
    /\ cval' = NoValidation
    /\ codecOps' = codecOps + 1
    /\ UNCHANGED cflip
    /\ UNCHANGED <<driverVars, timerVars, waitVars>>

\* A validator call on the buffer returned status.
Validated(op, size, cls, id, status) ==
    /\ cval' = [op |-> op, size |-> size, cls |-> cls, id |-> id, status |-> status]
    /\ codecOps' = codecOps + 1
    /\ UNCHANGED <<cbuf, cfrm, cflip>>
    /\ UNCHANGED <<driverVars, timerVars, waitVars>>

call_ubx_prepare_command(cls, id) ==
    /\ CodecCall
    /\ Built([NoFrame EXCEPT !.op = "prepare_command", !.cls = cls, !.id = id],
             ubx_prepare_command(cbuf, cls, id))

\* value_ptr is NULL or points at a 4-byte object holding `value`.
call_ubx_prepare_config_cmd_by_size(cfg_id, value_ptr, value_size) ==
    /\ CodecCall
    /\ Built([NoFrame EXCEPT !.op = "config_by_size", !.cls = UBX_CLASS_CFG,
                             !.id = UBX_CFG_VALSET, !.cfg_id = cfg_id,
                             !.value = IF value_ptr = NULL \/ value_size > 4 THEN 0
                                       ELSE MemValue(value_ptr, value_size),
                             !.value_ptr = value_ptr, !.value_size = value_size],
             ubx_prepare_config_cmd_by_size(cbuf, cfg_id, value_ptr, value_size))

call_ubx_prepare_config_cmd_u8(cfg_id, value) ==
    /\ CodecCall
    /\ Built([NoFrame EXCEPT !.op = "config_u8", !.cls = UBX_CLASS_CFG,
                             !.id = UBX_CFG_VALSET, !.cfg_id = cfg_id,
                             !.value = value, !.value_size = 1],
             ubx_prepare_config_cmd_u8(cbuf, cfg_id, value))

call_ubx_prepare_config_cmd_u16(cfg_id, value) ==
    /\ CodecCall
    /\ Built([NoFrame EXCEPT !.op = "config_u16", !.cls = UBX_CLASS_CFG,
                             !.id = UBX_CFG_VALSET, !.cfg_id = cfg_id,
                             !.value = value, !.value_size = 2],
             ubx_prepare_config_cmd_u16(cbuf, cfg_id, value))

call_ubx_prepare_config_cmd_u32(cfg_id, value) ==
    /\ CodecCall
    /\ Built([NoFrame EXCEPT !.op = "config_u32", !.cls = UBX_CLASS_CFG,
                             !.id = UBX_CFG_VALSET, !.cfg_id = cfg_id,
                             !.value = value, !.value_size = 4],
             ubx_prepare_config_cmd_u32(cbuf, cfg_id, value))

call_ubx_prepare_config_cmd(cfg_id, value) ==
    /\ CodecCall
    /\ Built([NoFrame EXCEPT !.op = "config_legacy", !.cls = UBX_CLASS_CFG,
                             !.id = UBX_CFG_VALSET, !.cfg_id = cfg_id,
                             !.value = value, !.value_size = 1],
             ubx_prepare_config_cmd(cbuf, cfg_id, value))

\* Sizes the caller passes to the validator: the size the builder returned,
\* one below the minimum frame size, and that of an ACK frame.
SizeSamples == {cfrm.size, 7, 10}

\* Expected (class, id) pairs: those of the frame just built and fixed ones.
ExpectSamples ==
    { <<cfrm.cls, cfrm.id>>, <<UBX_CLASS_CFG, UBX_CFG_VALSET>>,
      <<UBX_CLASS_ACK, UBX_ACK_ACK>> }

\* The read of buffer[3] through a null pointer ended in a fault.
HardFault == 255

\* What ubx_validate_ack can return.  With a null buffer ubx_validate_packet
\* has returned UBLOX_INVALID_PARAM and buffer[3] is read through the null
\* pointer: the byte found there is 0 (UBLOX_ERROR) or not (the status is
\* passed on), or the access faults.
ubx_validate_ack_results(buffer, size, expected_cls, expected_id) ==
    IF buffer = NULL
    THEN {UBLOX_ERROR, UBLOX_INVALID_PARAM, HardFault}
    ELSE {ubx_validate_ack(buffer, size, expected_cls, expected_id)}

call_ubx_validate_packet ==
    /\ CodecCall
    /\ \E size \in SizeSamples, <<expected_cls, expected_id>> \in ExpectSamples :
           Validated("validate_packet", size, expected_cls, expected_id,
                     ubx_validate_packet(cbuf, size, expected_cls, expected_id))

call_ubx_validate_ack ==
    /\ CodecCall
    /\ \E size \in SizeSamples, <<expected_cls, expected_id>> \in ExpectSamples :
           \E status \in ubx_validate_ack_results(cbuf, size, expected_cls, expected_id) :
               Validated("validate_ack", size, expected_cls, expected_id, status)

NextCodec ==
    \/ \E cls \in ByteSamples, id \in ByteSamples : call_ubx_prepare_command(cls, id)
    \/ \E cfg_id \in KeySamples, value_size \in WidthSamples :
           \E value_ptr \in ValuePtrSamples :
               call_ubx_prepare_config_cmd_by_size(cfg_id, value_ptr, value_size)
    \/ \E cfg_id \in KeySamples, value \in ValueSamples(1) :
           call_ubx_prepare_config_cmd_u8(cfg_id, value)
    \/ \E cfg_id \in KeySamples, value \in ValueSamples(2) :
           call_ubx_prepare_config_cmd_u16(cfg_id, value)
    \/ \E cfg_id \in KeySamples, value \in ValueSamples(4) :
           call_ubx_prepare_config_cmd_u32(cfg_id, value)
    \/ \E cfg_id \in KeySamples, value \in ValueSamples(1) :
           call_ubx_prepare_config_cmd(cfg_id, value)
    \/ call_ubx_validate_packet
    \/ call_ubx_validate_ack

SpecCodec == InitCodec /\ [][NextCodec]_vars

----------------------------------------------------------------------------
(* The validators on what a caller may hold after a transfer: a frame the  *)
(* module sent or a builder produced, possibly with one bit disturbed on   *)
(* the line, or a buffer that holds no frame at all.                       *)

\* Line noise hits one bit among the first MaxNoiseSpan bytes of a frame.
MaxNoiseSpan == 24

\* Byte `b` with bit number `bit` inverted.
FlipBit(b, bit) ==
    IF (b \div (2 ^ bit)) % 2 = 1 THEN b - 2 ^ bit ELSE b + 2 ^ bit

\* A 128-byte buffer whose first bytes are the sequence `bytes`.
LoadBuffer(bytes) ==
    [i \in BufIdx |-> IF i < Len(bytes) THEN bytes[i + 1] ELSE 0]

\* A frame of the module, stored in a buffer, and what it is.
Received(cls, id, payload) ==
    [frm |-> [NoFrame EXCEPT !.op = "wire", !.cls = cls, !.id = id,
                             !.size = UBX_HEADER_LENGTH + Len(payload) + UBX_CHECKSUM_LENGTH],
     buffer |-> LoadBuffer(DeviceFrame(cls, id, payload))]

\* A frame a builder left in a buffer: r is the builder's [size, buffer].
Prepared(cls, id, r) ==
    [frm |-> [NoFrame EXCEPT !.op = "prepared", !.cls = cls, !.id = id, !.size = r.size],
     buffer |-> r.buffer]

\* A buffer that holds no frame.
Unframed(buffer) == [frm |-> [NoFrame EXCEPT !.op = "wire"], buffer |-> buffer]

WireFrames ==
    { Received(UBX_CLASS_ACK, UBX_ACK_ACK, <<UBX_CLASS_CFG, UBX_CFG_VALSET>>),
      Received(UBX_CLASS_ACK, UBX_ACK_ACK, <<UBX_CLASS_NAV, UBX_NAV_PVT>>),
      Received(UBX_CLASS_ACK, UBX_ACK_NACK, <<UBX_CLASS_CFG, UBX_CFG_VALSET>>),
      Received(UBX_CLASS_NAV, UBX_NAV_PVT, [i \in 1..UBX_NAV_PVT_LEN |-> i]),
      Received(UBX_CLASS_CFG, UBX_CFG_VALSET, [i \in 1..UBX_MAX_PAYLOAD_LENGTH |-> 255 - i]),
      Prepared(UBX_CLASS_NAV, UBX_NAV_PVT,
               ubx_prepare_command(StaleBuffer, UBX_CLASS_NAV, UBX_NAV_PVT)),
      Prepared(UBX_CLASS_CFG, UBX_CFG_VALSET,
               ubx_prepare_config_cmd_u8(StaleBuffer, UBX_CFG_I2C_UBX_ENABLE, 1)),
      Prepared(UBX_CLASS_CFG, UBX_CFG_VALSET,
               ubx_prepare_config_cmd_u32(StaleBuffer, UBX_CFG_RATE_MEAS, 16909060)),
      Unframed(NULL), Unframed(ZeroBuffer), Unframed(StaleBuffer) }

InitWire ==
    /\ build = "BLOCKING"
    /\ dev = FreshDev(GPS_CMD_PVT)
    /\ i2c = I2cReady
    /\ pc = PcIdle
    /\ calls = <<>>
    /\ ret = [op |-> "none", status |-> UBLOX_OK]
    /\ pre = Snapshot(dev)
    /\ initOkSeen = FALSE
    /\ rxFresh = FALSE
    /\ \E f \in WireFrames : cbuf = f.buffer /\ cfrm = f.frm
    /\ cval = NoValidation
    /\ codecOps = 0
    /\ cflip = NoFlip
    /\ TimerIdle
    /\ WaitIdle

\* One bit of the frame in the buffer is inverted.
LineNoise(offset, bit) ==
    /\ cbuf # NULL
    /\ cflip = NoFlip
    /\ offset < cfrm.size
    /\ cbuf' = [cbuf EXCEPT ![offset] = FlipBit(cbuf[offset], bit)]
    /\ cflip' = <<offset, bit>>
    /\ cval' = NoValidation
    /\ UNCHANGED <<cfrm, codecOps>>
    /\ UNCHANGED <<driverVars, timerVars, waitVars>>

\* Sizes passed to a validator: none, one below the minimum, that of an
\* ACK, the frame's own and one more.
WireSizes == {0, 7, 10, cfrm.size, cfrm.size + 1}

recv_ubx_validate_packet ==
    /\ \E size \in WireSizes,
          <<expected_cls, expected_id>> \in {<<cfrm.cls, cfrm.id>>,
                                             <<UBX_CLASS_CFG, UBX_CFG_VALSET>>} :
           cval' = [op |-> "validate_packet", size |-> size,
                    cls |-> expected_cls, id |-> expected_id,
                    status |-> ubx_validate_packet(cbuf, size, expected_cls, expected_id)]
    /\ UNCHANGED <<cbuf, cfrm, codecOps, cflip>>
    /\ UNCHANGED <<driverVars, timerVars, waitVars>>

recv_ubx_validate_ack ==
    /\ \E size \in WireSizes,
          <<expected_cls, expected_id>> \in {<<UBX_CLASS_CFG, UBX_CFG_VALSET>>,
                                             <<UBX_CLASS_NAV, UBX_NAV_PVT>>} :
           \E status \in ubx_validate_ack_results(cbuf, size, expected_cls, expected_id) :
               cval' = [op |-> "validate_ack", size |-> size,
                        cls |-> expected_cls, id |-> expected_id, status |-> status]
    /\ UNCHANGED <<cbuf, cfrm, codecOps, cflip>>
    /\ UNCHANGED <<driverVars, timerVars, waitVars>>

NextWire ==
    \/ \E offset \in 0..(MaxNoiseSpan - 1), bit \in 0..7 : LineNoise(offset, bit)
    \/ recv_ubx_validate_packet
    \/ recv_ubx_validate_ack

SpecWire == InitWire /\ [][NextWire]_vars

----------------------------------------------------------------------------
(* Properties of the driver *)

\* The calls the current or last driver call made, I2C_WAIT left out.
BusCalls == SelectSeq(calls, LAMBDA e : e.fn # "wait")

\* `calls` is the record of a max_m10s_init call, running or returned.
InInit == pc.at # "idle" \/ ret.op = "init"

\* A step of max_m10s_init failed: a transfer function returned something
\* other than HAL_OK, or the ACK validation something other than UBLOX_OK.
StepFailed(e) ==
    \/ e.fn \in {"transmit", "receive"} /\ e.hal # HAL_OK
    \/ e.fn = "validate_ack" /\ e.status # UBLOX_OK

\* One bring-up step as C2 lists it: 17-byte command transmitted, 1000 ms delay,
\* 10 bytes received, ACK for (CFG, VALSET) validated.
BringUpStep(addr) ==
    << TransmitEv(addr, 17, HAL_OK), DelayEv(1000), ReceiveEv(addr, 10, HAL_OK),
       ValidateAckEv(10, UBLOX_OK) >>

\* C1: while no max_m10s_init has returned UBLOX_OK, every max_m10s_command
\* and max_m10s_read call returns UBLOX_INVALID_PARAM without invoking the
\* transmit or the receive function (nothing is called, the bus and the
\* instance are as before).
C1_UninitializedRejects ==
    [][\A devp \in {NULL, DevPtr}, cmd_type \in CmdTypes :
          (~initOkSeen /\ (max_m10s_command(devp, cmd_type) \/ max_m10s_read(devp)))
              => /\ ret'.status = UBLOX_INVALID_PARAM
                 /\ calls' = <<>>
                 /\ i2c' = i2c
                 /\ dev' = dev]_vars

\* max_m10s_read was rejected after a max_m10s_init that got as far as
\* building its first command and then failed.
C1_Witness ==
    /\ pc = PcIdle
    /\ ret = [op |-> "read", status |-> UBLOX_INVALID_PARAM]
    /\ ~initOkSeen
    /\ dev.tx_size = 17

C3_InitStopsAtFirstFailure ==
    InInit =>
        \A k \in 1..Len(calls) :
            StepFailed(calls[k])
                => /\ k = Len(calls)
                   /\ pc = PcIdle
                   /\ ret.op = "init"
                   /\ ret.status # UBLOX_OK
                   /\ calls[k].fn = "validate_ack" => ret.status = calls[k].status
                   /\ calls[k].fn # "validate_ack"
                          => ret.status \in {UBLOX_ERROR, UBLOX_I2C_ERROR}
                   /\ dev.initialized = 0

\* max_m10s_init has returned after its second receive failed.
C3_Witness ==
    /\ pc = PcIdle
    /\ ret.op = "init"
    /\ Len(BusCalls) = 7
    /\ StepFailed(BusCalls[7])
    /\ BusCalls[7].fn = "receive"

\* C4 as claimed: a failed transmit in max_m10s_init returns UBLOX_I2C_ERROR.
C4_InitTransmitFailureIsBusError ==
    (pc = PcIdle /\ ret.op = "init" /\ calls # <<>>
        /\ calls[Len(calls)].fn = "transmit" /\ calls[Len(calls)].hal # HAL_OK)
        => ret.status = UBLOX_I2C_ERROR

\* C5 as claimed: a driver call that returns a non-success status leaves
\* the initialization state and the current command as they were.
C5_FailureLeavesStateUnchanged ==
    (pc = PcIdle /\ ret.op \in {"init", "command", "read"} /\ ret.status # UBLOX_OK)
        => Snapshot(dev) = pre

\* C5 amended: after a driver call that returned a non-success status,
\*   max_m10s_read: initialization state and current command are as before;
\*   max_m10s_command: the initialization state is as before, and so is the
\*     current command unless the transmit was attempted and failed, in
\*     which case the requested command is already recorded;
\*   max_m10s_init rejected by parameter validation: both as before;
\*   max_m10s_init failed later: the instance is uninitialized, whatever it
\*     was before, and the current command is as before.
C5_FailureEffects ==
    (pc = PcIdle /\ ret.status # UBLOX_OK) =>
        CASE ret.op = "read" -> Snapshot(dev) = pre
          [] ret.op = "command" ->
                /\ dev.initialized = pre.initialized
                /\ dev.current_cmd = IF calls = <<>> THEN pre.current_cmd ELSE GPS_CMD_PVT
          [] ret.op = "init" ->
                /\ dev.current_cmd = pre.current_cmd
                /\ dev.initialized = IF calls = <<>> THEN pre.initialized ELSE 0
          [] OTHER -> TRUE

\* A max_m10s_init entered on a Ready instance has failed on the bus.
C5_Witness ==
    /\ pc = PcIdle
    /\ ret.op = "init"
    /\ ret.status = UBLOX_I2C_ERROR
    /\ pre.initialized = 1
    /\ dev.initialized = 0

\* An argument of max_m10s_init is null: dev, init, the bus handle or one
\* of the three function references.
InitArgHasNull(devp, init) ==
    \/ devp = NULL
    \/ init = NULL
    \/ init.hi2c = NULL
    \/ init.transmit = NULL
    \/ init.receive = NULL
    \/ init.delay_blocking = NULL

\* C6: a max_m10s_init call with a null dev, init, bus handle or function
\* reference returns UBLOX_INVALID_PARAM at once, having invoked no transport
\* or delay function and modified no field of the device instance.
C6_InitRejectsNull ==
    [][\A devp \in {NULL, DevPtr}, init \in InitRecords :
          (InitArgHasNull(devp, init) /\ max_m10s_init_enter(devp, init))
              => /\ pc' = PcIdle
                 /\ ret' = [op |-> "init", status |-> UBLOX_INVALID_PARAM]
                 /\ calls' = <<>>
                 /\ dev' = dev
                 /\ i2c' = i2c]_vars

\* A rejected max_m10s_init has returned on an instance that was Ready.
C6_Witness ==
    /\ pc = PcIdle
    /\ ret = [op |-> "init", status |-> UBLOX_INVALID_PARAM]
    /\ dev.initialized = 1

----------------------------------------------------------------------------
(* Properties of the codec *)

\* The builders of CFG-VALSET frames.
SizedConfigOps == {"config_by_size", "config_u8", "config_u16", "config_u32"}
ConfigOps == SizedConfigOps \cup {"config_legacy"}

\* The last builder call produced a frame, and the validator was then called
\* on it with the size the builder returned and the frame's own class and id.
ValidatedAsBuilt ==
    /\ cfrm.op # "none"
    /\ cfrm.size # 0
    /\ cval.op = "validate_packet"
    /\ cval.size = cfrm.size
    /\ cval.cls = cfrm.cls
    /\ cval.id = cfrm.id

\* C7: the buffer and size produced by ubx_prepare_command(buf, cls, id) are
\* accepted by ubx_validate_packet(buf, size, cls, id) with UBLOX_OK, for
\* every class and id; every frame produced by a config builder is accepted
\* when validated against (CFG 0x06, VALSET 0x8A).
C7_BuiltFrameValidates ==
    ValidatedAsBuilt => cval.status = UBLOX_OK

\* A ubx_prepare_command frame whose checksum wraps, validated and accepted.
C7_Witness ==
    /\ ValidatedAsBuilt
    /\ cfrm.op = "prepare_command"
    /\ cfrm.cls = 255
    /\ cfrm.id = 138
    /\ cval.status = UBLOX_OK

\* `width` bytes of the buffer from `offset`, decoded little-endian.
RECURSIVE LittleEndian(_, _, _)
LittleEndian(buffer, offset, width) ==
    IF width = 0 THEN 0
    ELSE buffer[offset] + 256 * LittleEndian(buffer, offset + 1, width - 1)

\* C8: for every key, every width w in {1, 2, 4} and every value of w bytes,
\* the frame built by ubx_prepare_config_cmd_by_size or by the u8/u16/u32
\* wrappers holds the value little-endian at buffer offsets 14..14+w-1
\* (decoding them gives the value back) and the 32-bit key little-endian at
\* buffer offsets 10..13 (payload offsets 4..7).
C8_ValueAndKeyLittleEndian ==
    (cfrm.op \in SizedConfigOps /\ cfrm.size # 0 /\ cfrm.value_size \in {1, 2, 4}) =>
        /\ LittleEndian(cbuf, 14, cfrm.value_size) = cfrm.value
        /\ LittleEndian(cbuf, 10, 4) = cfrm.cfg_id

\* The u32 wrapper has stored 0x01020304 under the key 0x30210001.
C8_Witness ==
    /\ cfrm.op = "config_u32"
    /\ cfrm.size # 0
    /\ cfrm.value = 16909060
    /\ cfrm.cfg_id = UBX_CFG_RATE_MEAS
    /\ <<cbuf[14], cbuf[15], cbuf[16], cbuf[17]>> = <<4, 3, 2, 1>>
    /\ <<cbuf[10], cbuf[11], cbuf[12], cbuf[13]>> = <<1, 0, 33, 48>>

\* C9: ubx_prepare_command(buf, cls, id) with a non-null buffer returns 8 and
\* leaves buf[0..7] = [0xB5, 0x62, cls, id, 0, 0, CK_A, CK_B], the checksum
\* being that of the four bytes {cls, id, 0, 0}; it returns 0 only when the
\* buffer is null.  For cls = 0x01, id = 0x07 the frame is
\* [0xB5, 0x62, 0x01, 0x07, 0x00, 0x00, 0x08, 0x19].
C9_PrepareCommandFrame ==
    cfrm.op = "prepare_command" =>
        /\ (cfrm.size = 0) <=> (cbuf = NULL)
        /\ cbuf # NULL =>
            /\ cfrm.size = 8
            /\ <<cbuf[0], cbuf[1], cbuf[2], cbuf[3], cbuf[4], cbuf[5]>>
                   = <<181, 98, cfrm.cls, cfrm.id, 0, 0>>
            /\ <<cbuf[6], cbuf[7]>> = calc_checksum(<<cfrm.cls, cfrm.id, 0, 0>>, 1, 4)
            /\ (cfrm.cls = 1 /\ cfrm.id = 7) => <<cbuf[6], cbuf[7]>> = <<8, 25>>

\* The NAV-PVT poll request has been built.
C9_Witness ==
    /\ cfrm.op = "prepare_command"
    /\ cfrm.cls = UBX_CLASS_NAV
    /\ cfrm.id = UBX_NAV_PVT
    /\ cfrm.size = 8
    /\ <<cbuf[6], cbuf[7]>> = <<8, 25>>

\* What ubx_prepare_config_cmd_by_size (directly or through a wrapper)
\* returns and writes, for every argument combination.
ConfigBySizeContract ==
    cfrm.op \in SizedConfigOps =>
        LET w == cfrm.value_size
            rejected == \/ cbuf = NULL
                        \/ cfrm.op = "config_by_size" /\ cfrm.value_ptr = NULL
                        \/ w > 4
        IN IF rejected THEN cfrm.size = 0
           ELSE /\ cfrm.size = 6 + (8 + w) + 2
                /\ <<cbuf[0], cbuf[1], cbuf[2], cbuf[3]>> = <<181, 98, 6, 138>>
                /\ <<cbuf[4], cbuf[5]>> = <<8 + w, 0>>
                /\ <<cbuf[6], cbuf[7], cbuf[8], cbuf[9]>> = <<0, 17, 0, 0>>
                /\ <<cbuf[14 + w], cbuf[15 + w]>> = calc_checksum(cbuf, 2, 4 + 8 + w)

\* The u8 wrapper was called with key 0x10720001 and value 1 on a buffer.
EnableUbxOverI2c ==
    /\ cfrm.op = "config_u8"
    /\ cfrm.cfg_id = UBX_CFG_I2C_UBX_ENABLE
    /\ cfrm.value = 1
    /\ cbuf # NULL

\* C10 as stated: ubx_prepare_config_cmd_by_size returns 0 for a null buffer,
\* a null value or w > 4, and otherwise returns 6 + (8 + w) + 2 with the
\* header, length, version, layers, reserved bytes and checksum in place; for
\* the u8 wrapper with key 0x10720001 and value 1 the length field is 9 and
\* the returned size is 19.
C10_ReturnsNineteen ==
    /\ ConfigBySizeContract
    /\ EnableUbxOverI2c => (FrameLen(cbuf) = 9 /\ cfrm.size = 19)

\* C10, amended: as above, but for the u8 wrapper with key 0x10720001 and
\* value 1 the length field is 9 and the returned size is 17 (6 + 9 + 2).
C10_ConfigBySizeFrame ==
    /\ ConfigBySizeContract
    /\ EnableUbxOverI2c => (FrameLen(cbuf) = 9 /\ cfrm.size = 17)

\* The u8 wrapper has built the 17-byte frame for key 0x10720001, value 1.
C10_Witness ==
    /\ EnableUbxOverI2c
    /\ cfrm.size = 17
    /\ cbuf[4] = 9
    /\ cbuf[14] = 1

----------------------------------------------------------------------------
(* Properties of the checksum and the validators *)

\* Sum of data[start + i] for i in lo..hi, by halves.
RECURSIVE SpanSum(_, _, _, _)
SpanSum(data, start, lo, hi) ==
    IF lo > hi THEN 0
    ELSE IF lo = hi THEN data[start + lo]
    ELSE LET mid == (lo + hi) \div 2
         IN SpanSum(data, start, lo, mid) + SpanSum(data, start, mid + 1, hi)

\* Sum of (n - i) * data[start + i] for i in lo..hi, by halves.
RECURSIVE WeightedSpanSum(_, _, _, _, _)
WeightedSpanSum(data, start, lo, hi, n) ==
    IF lo > hi THEN 0
    ELSE IF lo = hi THEN (n - lo) * data[start + lo]
    ELSE LET mid == (lo + hi) \div 2
         IN WeightedSpanSum(data, start, lo, mid, n)
                + WeightedSpanSum(data, start, mid + 1, hi, n)

\* The sum of the n bytes from data[start], modulo 256.
SumOfBytes(data, start, n) == SpanSum(data, start, 0, n - 1) % 256

\* The sum, modulo 256, of the running byte sums after each of the n bytes:
\* byte i is part of the running sum after bytes i, i+1, ..., n-1, so it
\* counts n - i times.
SumOfRunningSums(data, start, n) == WeightedSpanSum(data, start, 0, n - 1, n) % 256

\* The buffer passes every check ubx_validate_packet makes before the
\* checksum, for the arguments of the last validator call.
StructureAccepted ==
    /\ cbuf # NULL
    /\ cval.size >= 8
    /\ <<cbuf[0], cbuf[1]>> = <<181, 98>>
    /\ <<cbuf[2], cbuf[3]>> = <<cval.cls, cval.id>>
    /\ cbuf[4] + 256 * cbuf[5] <= 120
    /\ cval.size = 6 + (cbuf[4] + 256 * cbuf[5]) + 2

\* The two bytes at the end of the span of `size` bytes are the sums over
\* class, id, length and payload: size - 4 bytes from offset 2.
TrailerIsChecksum(size) ==
    <<cbuf[size - 2], cbuf[size - 1]>>
        = <<SumOfBytes(cbuf, 2, size - 4), SumOfRunningSums(cbuf, 2, size - 4)>>

\* C11: calc_checksum over b[0..n-1] gives ckA = (sum of the bytes) mod 256
\* and ckB = (sum of the running values of ckA) mod 256, both from 0; the
\* builders and ubx_validate_packet apply it to exactly class, id, the two
\* length bytes and the payload (length + 4 bytes from buffer offset 2).
C11_ChecksumSums ==
    /\ (cbuf # NULL /\ cfrm.size >= 8) =>
           calc_checksum(cbuf, 2, cfrm.size - 4)
               = <<SumOfBytes(cbuf, 2, cfrm.size - 4), SumOfRunningSums(cbuf, 2, cfrm.size - 4)>>
    /\ (cfrm.op = "prepared" /\ cflip = NoFlip) => TrailerIsChecksum(cfrm.size)
    /\ (cval.op = "validate_packet" /\ StructureAccepted) =>
           (cval.status = UBLOX_OK <=> TrailerIsChecksum(cval.size))

\* ubx_validate_packet has accepted the frame with the largest payload: its
\* checksum covers 124 bytes.
C11_Witness ==
    /\ cval.op = "validate_packet"
    /\ cval.status = UBLOX_OK
    /\ cval.size = MAX_BUFFER_SIZE
    /\ cbuf[4] = UBX_MAX_PAYLOAD_LENGTH
    /\ cflip = NoFlip

\* The buffer as it was before line noise inverted one of its bits.
Undisturbed ==
    IF cflip = NoFlip THEN cbuf
    ELSE [cbuf EXCEPT ![cflip[1]] = FlipBit(cbuf[cflip[1]], cflip[2])]

\* Line noise has inverted a bit at an offset in lo..hi.
FlippedWithin(lo, hi) ==
    cflip # NoFlip /\ cflip[1] >= lo /\ cflip[1] <= hi

\* C12: inverting any single bit of the covered span (class, id, the two
\* length bytes, payload) changes at least one of the two checksum bytes;
\* so a frame ubx_validate_packet accepts is rejected after any single-bit
\* flip in its payload, size and length unchanged.
C12_SingleBitFlipDetected ==
    /\ FlippedWithin(2, cfrm.size - 3) =>
           calc_checksum(cbuf, 2, cfrm.size - 4) # calc_checksum(Undisturbed, 2, cfrm.size - 4)
    /\ (/\ FlippedWithin(6, cfrm.size - 3)
        /\ cval.op = "validate_packet"
        /\ ubx_validate_packet(Undisturbed, cval.size, cval.cls, cval.id) = UBLOX_OK)
           => cval.status = UBLOX_ERROR

\* The top bit of the key's low byte in the 17-byte config frame was
\* inverted and ubx_validate_packet, called as for the intact frame, has
\* rejected it.
C12_Witness ==
    /\ cfrm.op = "prepared"
    /\ cfrm.size = 17
    /\ cflip = <<10, 7>>
    /\ cval.op = "validate_packet"
    /\ cval.size = 17
    /\ <<cval.cls, cval.id>> = <<UBX_CLASS_CFG, UBX_CFG_VALSET>>
    /\ cval.status = UBLOX_ERROR

\* C13: ubx_validate_packet returns UBLOX_INVALID_PARAM whenever the buffer
\* is null or size < 8, whatever the buffer holds and whatever class and id
\* are expected; this check comes before every structural check.
C13_NullOrShortIsInvalidParam ==
    (cval.op = "validate_packet" /\ (cbuf = NULL \/ cval.size < 8))
        => cval.status = UBLOX_INVALID_PARAM

\* A buffer that fails the sync check, passed with size 7, was answered
\* with UBLOX_INVALID_PARAM.
C13_Witness ==
    /\ cval.op = "validate_packet"
    /\ cval.size = 7
    /\ cbuf = StaleBuffer
    /\ cval.status = UBLOX_INVALID_PARAM

\* C14: for a non-null buffer and size >= 8, ubx_validate_packet returns
\* UBLOX_OK exactly when bytes 0..1 are 0xB5 0x62, bytes 2..3 are the
\* expected class and id, the little-endian length at bytes 4..5 is at most
\* 120, size = 6 + length + 2 and the recomputed checksum equals bytes
\* size-2 and size-1; in every other case it returns UBLOX_ERROR.
C14_AcceptsExactlyWellFormed ==
    (cval.op = "validate_packet" /\ cbuf # NULL /\ cval.size >= 8) =>
        cval.status = IF StructureAccepted /\ TrailerIsChecksum(cval.size)
                      THEN UBLOX_OK ELSE UBLOX_ERROR

\* A frame declaring 121 payload bytes, passed with the matching size 129,
\* has been rejected.
C14_Witness ==
    /\ cval.op = "validate_packet"
    /\ cbuf # NULL
    /\ <<cbuf[4], cbuf[5]>> = <<121, 0>>
    /\ cval.size = 129
    /\ <<cval.cls, cval.id>> = <<cbuf[2], cbuf[3]>>
    /\ cval.status = UBLOX_ERROR

\* The buffer holds, in its first `size` bytes, a well-formed ACK-ACK frame:
\* sync bytes, class 0x05, id 0x01, length consistent with size, checksum.
WellFormedAckAck(size) ==
    /\ cbuf # NULL
    /\ size >= 8
    /\ <<cbuf[0], cbuf[1], cbuf[2], cbuf[3]>> = <<181, 98, 5, 1>>
    /\ cbuf[4] + 256 * cbuf[5] <= 120
    /\ size = 6 + (cbuf[4] + 256 * cbuf[5]) + 2
    /\ TrailerIsChecksum(size)

\* C15: ubx_validate_ack(buf, size, cls, id) returns UBLOX_OK only when buf
\* is a well-formed ACK-ACK frame whose bytes at buffer offsets 6 and 7
\* equal cls and id; a well-formed ACK-ACK frame that echoes any other
\* class/id pair gives UBLOX_ERROR.
C15_AckOnlyForEchoedCommand ==
    cval.op = "validate_ack" =>
        /\ cval.status = UBLOX_OK =>
               (WellFormedAckAck(cval.size) /\ <<cbuf[6], cbuf[7]>> = <<cval.cls, cval.id>>)
        /\ (WellFormedAckAck(cval.size) /\ <<cbuf[6], cbuf[7]>> # <<cval.cls, cval.id>>)
               => cval.status = UBLOX_ERROR

\* The ACK of a NAV-PVT command, validated as the ACK of CFG-VALSET, has
\* been refused.
C15_Witness ==
    /\ cval.op = "validate_ack"
    /\ WellFormedAckAck(cval.size)
    /\ <<cbuf[6], cbuf[7]>> = <<UBX_CLASS_NAV, UBX_NAV_PVT>>
    /\ <<cval.cls, cval.id>> = <<UBX_CLASS_CFG, UBX_CFG_VALSET>>
    /\ cval.status = UBLOX_ERROR

\* C16 as claimed: ubx_validate_ack answers a buffer whose id byte (offset
\* 3) is the NACK constant 0x00 with UBLOX_ERROR, and every other buffer
\* that ubx_validate_packet refuses with the status ubx_validate_packet
\* returned for it, so that a buffer shorter than 8 bytes gives
\* UBLOX_INVALID_PARAM.
C16_NackOrStructuralStatus ==
    cval.op = "validate_ack" =>
        LET nack == cbuf # NULL /\ cbuf[3] = 0
            structural == ubx_validate_packet(cbuf, cval.size, 5, 1)
        IN /\ nack => cval.status = UBLOX_ERROR
           /\ (~nack /\ structural # UBLOX_OK) => cval.status = structural
           /\ cval.size < 8 => cval.status = UBLOX_INVALID_PARAM

\* ---------------------------------------------------------------------
\* Acknowledgement freshness during initialisation
\* ---------------------------------------------------------------------

\* The step in which max_m10s_init accepts the acknowledgement of the
\* second configuration command and returns UBLOX_OK.
SecondAckAccepted ==
    /\ pc.at = "validate_ack"
    /\ pc.phase = 2
    /\ pc'.at = "idle"
    /\ ret' = [op |-> "init", status |-> UBLOX_OK]

\* C17: the acknowledgement validated after the second configuration
\* command is one that was received after that command was sent; bytes
\* left in the receive buffer by the first command's acknowledgement are
\* never accepted for the second.
C17_SecondAckIsFresh ==
    [][SecondAckAccepted => rxFresh]_vars

\* ---------------------------------------------------------------------
\* Commands and reads on an initialized instance
\* ---------------------------------------------------------------------

\* The NAV-PVT poll request as it stands on the wire.
NavPvtRequest == <<181, 98, 1, 7, 0, 0, 8, 25>>

\* The first Len(bytes) bytes of buffer are bytes.
StartsWith(buffer, bytes) ==
    \A i \in 1..Len(bytes) : buffer[i - 1] = bytes[i]

\* C18: on an initialized instance max_m10s_command(GPS_CMD_PVT) leaves the
\* 8-byte NAV-PVT request (class 0x01, id 0x07) in tx_buffer, calls the
\* transmit function exactly once with the stored shifted address and
\* length 8, records GPS_CMD_PVT as the current command, and returns
\* UBLOX_OK when the transmit is accepted and UBLOX_I2C_ERROR when it is
\* not; any other command kind returns UBLOX_INVALID_PARAM and nothing is
\* transmitted.
C18_CommandOnReady ==
    [][\A cmd_type \in CmdTypes :
          (dev.initialized = 1 /\ max_m10s_command(DevPtr, cmd_type))
              => IF cmd_type = GPS_CMD_PVT
                 THEN /\ StartsWith(dev'.tx_buffer, NavPvtRequest)
                      /\ dev'.tx_size = 8
                      /\ dev'.current_cmd = GPS_CMD_PVT
                      /\ Len(calls') = 1
                      /\ calls'[1].fn = "transmit"
                      /\ calls'[1].addr = dev.configs.device_address
                      /\ calls'[1].size = 8
                      /\ ret'.status = IF calls'[1].hal = HAL_OK
                                       THEN UBLOX_OK
                                       ELSE UBLOX_I2C_ERROR
                 ELSE /\ ret'.status = UBLOX_INVALID_PARAM
                      /\ calls' = <<>>
                      /\ i2c' = i2c
                      /\ dev' = dev]_vars

\* A command on an initialized instance whose transmit was refused: the
\* request went to address 0x42 << 1 and the call returned UBLOX_I2C_ERROR.
C18_Witness ==
    /\ pc = PcIdle
    /\ dev.initialized = 1
    /\ ret = [op |-> "command", status |-> UBLOX_I2C_ERROR]
    /\ Len(calls) = 1
    /\ calls[1].fn = "transmit"
    /\ calls[1].addr = 132
    /\ calls[1].hal # HAL_OK
    /\ StartsWith(dev.tx_buffer, NavPvtRequest)

\* C19: on an initialized instance whose current command is GPS_CMD_PVT,
\* max_m10s_read sets rx_size to 100 (6 + 92 + 2) and calls the receive
\* function exactly once, for 100 bytes into rx_buffer at the stored
\* shifted address; it returns UBLOX_OK when the receive is accepted and
\* UBLOX_I2C_ERROR when it is not.  Bytes of rx_buffer past the first 100
\* are never touched, and an interrupt-driven receive that was accepted
\* leaves the bus receiving 100 bytes.
C19_ReadOnReady ==
    [][(dev.initialized = 1 /\ dev.current_cmd = GPS_CMD_PVT /\ max_m10s_read(DevPtr))
          => /\ dev'.rx_size = 100
             /\ Len(calls') = 1
             /\ calls'[1].fn = "receive"
             /\ calls'[1].addr = dev.configs.device_address
             /\ calls'[1].size = 100
             /\ ret'.status = IF calls'[1].hal = HAL_OK
                              THEN UBLOX_OK
                              ELSE UBLOX_I2C_ERROR
             /\ \A i \in BufIdx : i >= 100 => dev'.rx_buffer[i] = dev.rx_buffer[i]
             /\ (build = "NON_BLOCKING" /\ calls'[1].hal = HAL_OK)
                    => i2c' = [state |-> "BUSY_RX", size |-> 100]]_vars

\* A read that followed a command: the receive of 100 bytes at address
\* 0x42 << 1 was accepted and the call returned UBLOX_OK.
C19_Witness ==
    /\ pc = PcIdle
    /\ dev.initialized = 1
    /\ dev.current_cmd = GPS_CMD_PVT
    /\ ret = [op |-> "read", status |-> UBLOX_OK]
    /\ calls = <<ReceiveEv(132, 100, HAL_OK)>>
    /\ dev.rx_size = 100
    /\ dev.tx_size = 8

\* ---------------------------------------------------------------------
\* The current command
\* ---------------------------------------------------------------------

\* max_m10s_init has returned UBLOX_OK and no driver call was made since.
JustInitialized ==
    /\ pc = PcIdle
    /\ ret = [op |-> "init", status |-> UBLOX_OK]

\* C20: after a successful max_m10s_init and before the first
\* max_m10s_command the instance has no current command, so max_m10s_read
\* in that state issues no receive; and a max_m10s_read never changes the
\* recorded current command.
C20_NoCommandAfterInit ==
    [][/\ (JustInitialized /\ max_m10s_read(DevPtr))
            => /\ dev.current_cmd # GPS_CMD_PVT
               /\ calls' = <<>>
               /\ i2c' = i2c
       /\ (\E devp \in {NULL, DevPtr} : max_m10s_read(devp))
            => dev'.current_cmd = dev.current_cmd]_vars

\* ---------------------------------------------------------------------
\* Transport calls per driver call
\* ---------------------------------------------------------------------

\* How often the running or last driver call has invoked `fn`.
CallsOf(fn) == Len(SelectSeq(calls, LAMBDA e : e.fn = fn))

\* C21: no driver call retries a transport operation.  One max_m10s_init
\* call invokes transmit at most twice and receive at most twice, once per
\* bring-up command; one max_m10s_command call invokes transmit at most
\* once and never receive; one max_m10s_read call invokes receive at most
\* once and never transmit, whatever the transport functions return.
C21_NoRetry ==
    /\ InInit => /\ CallsOf("transmit") <= 2
                 /\ CallsOf("receive") <= 2
    /\ pc.phase = 1 => /\ CallsOf("transmit") <= 1
                       /\ CallsOf("receive") <= 1
    /\ (pc = PcIdle /\ ret.op = "command")
          => /\ CallsOf("transmit") <= 1
             /\ CallsOf("receive") = 0
    /\ (pc = PcIdle /\ ret.op = "read")
          => /\ CallsOf("receive") <= 1
             /\ CallsOf("transmit") = 0

\* A max_m10s_init whose second receive was refused: it returned without
\* another attempt, having called transmit twice and receive twice.
C21_Witness ==
    /\ pc = PcIdle
    /\ ret.op = "init"
    /\ ret.status # UBLOX_OK
    /\ CallsOf("transmit") = 2
    /\ CallsOf("receive") = 2
    /\ calls[Len(calls)].fn = "receive"
    /\ calls[Len(calls)].hal # HAL_OK

\* ---------------------------------------------------------------------
\* Ordering of bus operations
\* ---------------------------------------------------------------------

\* A driver step that calls the transmit or the receive function.
TransportCalled ==
    \/ max_m10s_init_transmit
    \/ max_m10s_init_receive
    \/ /\ \E devp \in {NULL, DevPtr}, cmd_type \in CmdTypes : max_m10s_command(devp, cmd_type)
       /\ Len(calls') = 1
    \/ /\ \E devp \in {NULL, DevPtr} : max_m10s_read(devp)
       /\ Len(calls') = 1

InitWaitTimedOut ==
    /\ max_m10s_init_wait
    /\ calls'[Len(calls')] = WaitEv(UBLOX_TIMEOUT)

\* C23: in the interrupt-driven build, when the wait for completion of a
\* bus transfer exceeds its limit during max_m10s_init, init stops at that
\* step and returns UBLOX_TIMEOUT; it does not go on to the settling
\* delay, the next transfer or the ACK validation.
C23_InitWaitTimeoutStops ==
    [][InitWaitTimedOut => /\ pc' = PcIdle
                           /\ ret' = [op |-> "init", status |-> UBLOX_TIMEOUT]]_vars

\* ---------------------------------------------------------------------
\* The interrupt-driven delay
\* ---------------------------------------------------------------------

\* Entry i of tlog is a TIM2 elapsed event / the start of a delay call.
Tim2Elapsed(i) == tlog[i].ev = "elapsed" /\ tlog[i].inst = "TIM2"
ArmEntered(i) == tlog[i].ev = "arm_enter"
ArmSucceeded(i) == tlog[i].ev = "arm_return" /\ tlog[i].status = HAL_OK

\* No delay call starts / no TIM2 elapsed event lies strictly between
\* entries i and j of tlog.
NoArmBetween(i, j) == \A k \in (i + 1)..(j - 1) : ~ArmEntered(k)
NoElapsedBetween(i, j) == \A k \in (i + 1)..(j - 1) : ~Tim2Elapsed(k)

\* A timer_delay_ms_it call has started and not yet returned at entry i.
ArmInProgressAt(i) ==
    Cardinality({k \in 1..i : ArmEntered(k)})
        > Cardinality({k \in 1..i : tlog[k].ev = "arm_return"})

\* The elapsed event at entry j invoked a callback / invoked exactly
\* callback(context), once.
Invoked(j) == j + 1 <= Len(tlog) /\ tlog[j + 1].ev = "callback"
InvokedOnce(j, callback, context) ==
    /\ j + 1 <= Len(tlog)
    /\ tlog[j + 1] = CallbackEv(callback, context)
    /\ j + 2 <= Len(tlog) => tlog[j + 2].ev # "callback"

\* C24: after timer_delay_ms_it(callback, context) has returned HAL_OK, the
\* first TIM2 elapsed event invokes that callback exactly once with that
\* context; a further elapsed event that no new timer_delay_ms_it call
\* precedes (none started since the previous event, none in progress at
\* it) invokes no callback.
C24_CallbackExactlyOnce ==
    \A j \in 1..Len(tlog) : Tim2Elapsed(j) =>
        \A i \in 1..(j - 1) :
            /\ (ArmSucceeded(i) /\ NoElapsedBetween(i, j) /\ NoArmBetween(i, j))
                 => InvokedOnce(j, tlog[i].callback, tlog[i].context)
            /\ (Tim2Elapsed(i) /\ NoArmBetween(i, j) /\ ~ArmInProgressAt(i))
                 => ~Invoked(j)

\* The elapsed event at entry j invoked a callback that armed a new delay:
\* entries j + 2 and j + 3 are that timer_delay_ms_it call.
Rearmed(j) ==
    /\ Tim2Elapsed(j)
    /\ Invoked(j)
    /\ tlog[j + 1].callback = OnDelayChain

\* C25: app_timer_elapsed_hook clears the registration before it calls the
\* callback, never after.  When the callback arms a new delay, the callback
\* and context it registered are registered when the hook returns, and the
\* next elapsed event invokes them (no other timer_delay_ms_it call being
\* started or in progress in between).
C25_ClearedBeforeCallback ==
    /\ [][(app_timer_elapsed_hook("TIM2") /\ g_delay_callback = OnDelayChain)
            => /\ g_delay_callback' = OnDelayDone
               /\ g_delay_context' = g_delay_context]_vars
    /\ [](\A j \in 1..Len(tlog) : (Rearmed(j) /\ ~ArmInProgressAt(j)) =>
            \A k \in (j + 1)..Len(tlog) :
               (Tim2Elapsed(k) /\ NoElapsedBetween(j, k) /\ NoArmBetween(j + 2, k))
                  => InvokedOnce(k, tlog[j + 2].callback, tlog[j + 2].context))

\* A callback armed a new delay from inside the hook, and the next elapsed
\* event invoked the callback it had registered, with its context.
C25_Witness ==
    /\ Len(tlog) = 8
    /\ tlog[3] = ElapsedEv("TIM2")
    /\ tlog[4] = CallbackEv(OnDelayChain, <<"ctx_b">>)
    /\ tlog[5] = ArmEnterEv(htim2, 1000, OnDelayDone, <<"ctx_b">>)
    /\ tlog[6] = ArmReturnEv(OnDelayDone, <<"ctx_b">>, HAL_OK)
    /\ tlog[7] = ElapsedEv("TIM2")
    /\ tlog[8] = CallbackEv(OnDelayDone, <<"ctx_b">>)
    /\ g_delay_callback = NULL

\* Entry i of tlog starts a timer_delay_ms_it call whose arguments qualify
\* (timer handle given, at most 1000 ms, callback given) and that returned
\* before anything else happened.
ArmedAt(i) ==
    /\ ArmEntered(i)
    /\ tlog[i].htim # NULL
    /\ tlog[i].delay_ms <= 1000
    /\ tlog[i].callback # NULL
    /\ i + 1 <= Len(tlog)
    /\ tlog[i + 1].ev = "arm_return"

\* C26: the delay has one callback slot for the whole program.  At every
\* moment at most one (callback, context) pair is registered, and when a
\* second delay is armed before the first has elapsed, the first pair is
\* overwritten: the next elapsed event invokes the second delay's callback
\* with the second delay's context, once, and the first delay's callback
\* is not invoked.
C26_SingleSlotOverwritten ==
    /\ g_delay_callback \in Callbacks \cup {NULL}
    /\ g_delay_context \in Contexts \cup {NULL}
    /\ \A j \in 1..Len(tlog) : ArmedAt(j) =>
          \A k \in (j + 2)..Len(tlog) :
             (Tim2Elapsed(k) /\ NoElapsedBetween(j, k) /\ NoArmBetween(j, k)) =>
                \A i \in 1..(j - 1) :
                   (ArmSucceeded(i) /\ NoElapsedBetween(i, j))
                      => /\ InvokedOnce(k, tlog[j].callback, tlog[j].context)
                         /\ \A m \in (i + 1)..(k - 1) : tlog[m].ev # "callback"

\* Two delays were armed one after the other with different callbacks and
\* contexts, then TIM2 elapsed: only the second callback was invoked.
C26_Witness ==
    /\ Len(tlog) = 6
    /\ tlog[2] = ArmReturnEv(OnDelayChain, <<"ctx_b">>, HAL_OK)
    /\ tlog[3] = ArmEnterEv(htim2, 1000, OnDelayDone, <<"ctx_a">>)
    /\ tlog[4].ev = "arm_return"
    /\ tlog[5] = ElapsedEv("TIM2")
    /\ tlog[6] = CallbackEv(OnDelayDone, <<"ctx_a">>)
    /\ g_delay_callback = NULL

\* ---------------------------------------------------------------------
\* Reuse of one buffer by the builders
\* ---------------------------------------------------------------------

BuilderOps == ConfigOps \cup {"prepare_command"}

\* The builder call that cfrm records, made on `buffer` instead.
Rebuild(frm, buffer) ==
    CASE frm.op = "prepare_command" -> ubx_prepare_command(buffer, frm.cls, frm.id)
      [] frm.op = "config_by_size" ->
            ubx_prepare_config_cmd_by_size(buffer, frm.cfg_id, frm.value_ptr, frm.value_size)
      [] frm.op = "config_u8" -> ubx_prepare_config_cmd_u8(buffer, frm.cfg_id, frm.value)
      [] frm.op = "config_u16" -> ubx_prepare_config_cmd_u16(buffer, frm.cfg_id, frm.value)
      [] frm.op = "config_u32" -> ubx_prepare_config_cmd_u32(buffer, frm.cfg_id, frm.value)
      [] frm.op = "config_legacy" -> ubx_prepare_config_cmd(buffer, frm.cfg_id, frm.value)

\* C27: the builders keep no state between calls.  After any sequence of
\* builder calls on one 128-byte buffer, the 128 bytes and the returned
\* size are what the last successful call produces from its arguments
\* alone, on a zeroed buffer as on a buffer full of 0xAA; every byte past
\* the frame is 0, so nothing of an earlier, longer frame survives.
C27_BuildersKeepNoState ==
    (cfrm.op \in BuilderOps /\ cfrm.size # 0) =>
        /\ \A buffer \in {ZeroBuffer, StaleBuffer} :
               Rebuild(cfrm, buffer) = [size |-> cfrm.size, buffer |-> cbuf]
        /\ \A i \in BufIdx : i >= cfrm.size => cbuf[i] = 0

\* An 8-byte command frame built over a 20-byte configuration frame.
C27_Witness ==
    /\ cfrm.op = "prepare_command"
    /\ cfrm.size = 8
    /\ cfrm.prev = 20
    /\ \A i \in 8..19 : cbuf[i] = 0

\* A codec call was made: a builder call, or a validator call.
BuilderCalled == codecOps' = codecOps + 1 /\ cval' = NoValidation
ValidatorCalled == codecOps' = codecOps + 1 /\ cval'.op # "none"

\* C28: codec functions have no side effects on failure.  A builder call
\* that returns 0 writes no byte of the buffer; ubx_validate_packet and
\* ubx_validate_ack never modify the buffer, whatever they return.
C28_NoSideEffectsOnFailure ==
    [][/\ (BuilderCalled /\ cfrm'.size = 0) => cbuf' = cbuf
       /\ ValidatorCalled => cbuf' = cbuf]_vars

\* ubx_prepare_config_cmd_by_size refused a value of 5 bytes and the
\* 20-byte frame built before it is still in the buffer.
C28_Witness ==
    /\ cfrm.op = "config_by_size"
    /\ cfrm.value_size = 5
    /\ cfrm.value_ptr # NULL
    /\ cfrm.size = 0
    /\ cfrm.prev = 20
    /\ cbuf # NULL
    /\ FrameLen(cbuf) = 12
    /\ ubx_validate_packet(cbuf, 20, UBX_CLASS_CFG, UBX_CFG_VALSET) = UBLOX_OK

\* ---------------------------------------------------------------------
\* The device address
\* ---------------------------------------------------------------------

\* C29: for every 7-bit device address a given to max_m10s_init the stored
\* address is 2 * a (a shifted left by one bit, low bit 0), on a fresh
\* instance and on one that already holds the shifted address, so the
\* shift is never applied twice; every transmit and receive call made
\* afterwards by init, command and read passes exactly the stored value.
C29_ShiftedAddress ==
    /\ [](\A a \in 0..127 :
            LET once == InitResetDev(FreshDev(GPS_CMD_PVT), GpsInit(a))
                twice == InitResetDev(once, GpsInit(a))
            IN /\ once.configs.device_address = 2 * a
               /\ twice.configs.device_address = 2 * a)
    /\ [](\A n \in 1..Len(calls) :
            calls[n].fn \in {"transmit", "receive"}
                => calls[n].addr = dev.configs.device_address)
    /\ [][\A init \in InitRecords :
            (InitParamsValid(DevPtr, init) /\ max_m10s_init_enter(DevPtr, init))
                => dev'.configs.device_address = 2 * init.device_address]_vars

\* A second max_m10s_init on an initialized instance has returned UBLOX_OK
\* with address 0x7F: both transmits and both receives went to 0xFE.
C29_Witness ==
    /\ pc = PcIdle
    /\ ret = [op |-> "init", status |-> UBLOX_OK]
    /\ pre.initialized = 1
    /\ dev.configs.device_address = 254
    /\ CallsOf("transmit") = 2
    /\ CallsOf("receive") = 2
    /\ \A n \in 1..Len(calls) :
          calls[n].fn \in {"transmit", "receive"} => calls[n].addr = 254

\* ---------------------------------------------------------------------
\* Measurement-rate configuration
\* ---------------------------------------------------------------------

\* The calls of a max_m10s_config_meas_rate call that went through.
RateStep(addr) ==
    << TransmitEv(addr, 18, HAL_OK), DelayEv(1000), ReceiveEv(addr, 10, HAL_OK),
       ValidateAckEv(10, UBLOX_OK) >>

C31_ValidateResponse ==
    [][(/\ dev.initialized = 1
        /\ CallsOf("receive") = 1
        /\ max_m10s_validate_response(DevPtr, GPS_CMD_PVT))
          => /\ (ret'.status = UBLOX_OK)
                   <=> (ubx_validate_packet(dev.rx_buffer, 100, 1, 7) = UBLOX_OK)
             /\ calls' = <<>>
             /\ i2c' = i2c
             /\ dev' = dev]_vars

\* max_m10s_validate_response has accepted a NAV-PVT report that
\* max_m10s_read received in the NON_BLOCKING build.
C31_Witness ==
    /\ pc = PcIdle
    /\ ret = [op |-> "validate_response", status |-> UBLOX_OK]
    /\ build = "NON_BLOCKING"
    /\ dev.rx_size = 100
    /\ dev.rx_buffer[2] = 1
    /\ dev.rx_buffer[3] = 7

\* ---------------------------------------------------------------------
\* The frames of bring-up
\* ---------------------------------------------------------------------

\* The transmit buffer holds, in its first `size` bytes, a CFG-VALSET frame
\* with length field 9 for the key with little-endian bytes `key` and the
\* value byte `value`, checksum included.
HoldsConfigFrame(d, size, key, value) ==
    /\ d.tx_size = size
    /\ [i \in 0..5 |-> d.tx_buffer[i]] = [i \in 0..5 |-> <<181, 98, 6, 138, 9, 0>>[i + 1]]
    /\ [i \in 10..13 |-> d.tx_buffer[i]] = [i \in 10..13 |-> key[i - 9]]
    /\ d.tx_buffer[14] = value
    /\ ubx_validate_packet(d.tx_buffer, size, 6, 138) = UBLOX_OK

\* What max_m10s_init transmits and validates, the frames being `size` bytes.
InitFramesSent(size) ==
    /\ max_m10s_init_transmit =>
          /\ CallsOf("transmit") = pc.phase - 1
          /\ pc.phase = 1 => HoldsConfigFrame(dev, size, <<1, 0, 114, 16>>, 1)
          /\ pc.phase = 2 =>
                /\ HoldsConfigFrame(dev, size, <<2, 0, 114, 16>>, 0)
                /\ BusCalls[Len(BusCalls)] = ValidateAckEv(10, UBLOX_OK)
          /\ calls'[Len(calls')].size = size
          /\ pc.phase \in {1, 2}
    /\ max_m10s_init_validate_ack =>
          calls'[Len(calls')] = ValidateAckEv(10, ubx_validate_ack(dev.rx_buffer, 10, 6, 138))

\* C32 as claimed: the two frames max_m10s_init transmits are 19 bytes long.
C32_AsClaimed == [][InitFramesSent(19)]_vars

\* C32: during max_m10s_init exactly these frames are transmitted, in this
\* order: first a 17-byte CFG-VALSET frame with key 0x10720001 and value
\* byte 1, then a 17-byte CFG-VALSET frame with key 0x10720002 and value
\* byte 0; the second is transmitted only after the first one's ACK has
\* been validated, and both ACKs are validated against (0x06, 0x8A).
C32_InitFrames == [][InitFramesSent(17)]_vars

\* max_m10s_init has returned UBLOX_OK in the BLOCKING build after sending
\* both frames; the NMEA-disable frame is still in the transmit buffer.
C32_Witness ==
    /\ pc = PcIdle
    /\ ret = [op |-> "init", status |-> UBLOX_OK]
    /\ build = "BLOCKING"
    /\ CallsOf("transmit") = 2
    /\ HoldsConfigFrame(dev, 17, <<2, 0, 114, 16>>, 0)

\* ---------------------------------------------------------------------
\* The legacy builder and the 1-byte wrapper
\* ---------------------------------------------------------------------

\* C33: for every config key and every 8-bit value ubx_prepare_config_cmd
\* and ubx_prepare_config_cmd_u8 return the same size and leave the same
\* bytes in the whole 128-byte buffer: on every buffer a caller starts
\* from, for all 256 values, and on every call of either in a sequence of
\* codec calls.
C33_LegacyEqualsU8 ==
    /\ [](codecOps = 0 =>
            \A cfg_id \in KeySamples, value \in Byte :
                ubx_prepare_config_cmd(cbuf, cfg_id, value)
                    = ubx_prepare_config_cmd_u8(cbuf, cfg_id, value))
    /\ [][/\ (BuilderCalled /\ cfrm'.op = "config_legacy")
                => <<cfrm'.size, cbuf'>>
                       = << ubx_prepare_config_cmd_u8(cbuf, cfrm'.cfg_id, cfrm'.value).size,
                            ubx_prepare_config_cmd_u8(cbuf, cfrm'.cfg_id, cfrm'.value).buffer >>
          /\ (BuilderCalled /\ cfrm'.op = "config_u8")
                => <<cfrm'.size, cbuf'>>
                       = << ubx_prepare_config_cmd(cbuf, cfrm'.cfg_id, cfrm'.value).size,
                            ubx_prepare_config_cmd(cbuf, cfrm'.cfg_id, cfrm'.value).buffer >>]_vars

\* The legacy builder has overwritten a 20-byte frame with a 17-byte one
\* for value 0xFF; nothing of the longer frame is left behind it.
C33_Witness ==
    /\ cfrm.op = "config_legacy"
    /\ cfrm.prev = 20
    /\ cfrm.size = 17
    /\ cfrm.value = 255
    /\ \A i \in 17..(MAX_BUFFER_SIZE - 1) : cbuf[i] = 0

\* ---------------------------------------------------------------------
\* Memory safety of the validators
\* ---------------------------------------------------------------------

\* The indices the last validator call read in the buffer it was given.
ValidatorReads ==
    CASE cval.op = "validate_packet" ->
            ubx_validate_packet_reads(cbuf, cval.size, cval.cls, cval.id)
      [] cval.op = "validate_ack" ->
            ubx_validate_ack_reads(cbuf, cval.size, cval.cls, cval.id)
      [] OTHER -> {}

\* C34 as claimed: the validators are memory-safe for every input.
\* ubx_validate_packet and ubx_validate_ack never read a buffer index >=
\* size and never read through a null buffer pointer, also when size < 8,
\* when the buffer is null and when the declared length is larger than the
\* bytes supplied; no call ends in a fault.
C34_ValidatorsMemorySafe ==
    /\ \A i \in ValidatorReads : i < cval.size
    /\ cbuf = NULL => ValidatorReads = {}
    /\ cval.status # HardFault

\* ---------------------------------------------------------------------
\* Buffer bounds
\* ---------------------------------------------------------------------

\* Buffer bounds of the driver, a config frame being `cfg` bytes long.
BufferBounds(cfg) ==
    /\ dev.tx_size <= 128
    /\ dev.rx_size <= 128
    /\ DOMAIN dev.tx_buffer = 0..127
    /\ DOMAIN dev.rx_buffer = 0..127
    /\ \A n \in 1..Len(calls) :
          /\ calls[n].fn = "transmit" => calls[n].size \in {8, cfg} /\ calls[n].size <= 128
          /\ calls[n].fn = "receive" => calls[n].size \in {10, 100} /\ calls[n].size <= 128

C36_OnlyInitWritesInitialized ==
    [][/\ (\E devp \in {NULL, DevPtr} :
              \/ max_m10s_read(devp)
              \/ \E cmd_type \in CmdTypes : max_m10s_command(devp, cmd_type))
            => dev'.initialized = dev.initialized
       /\ (dev.initialized = 1 /\ dev'.initialized # 1)
            => \E init \in InitRecords :
                   InitParamsValid(DevPtr, init) /\ max_m10s_init_enter(DevPtr, init)
       /\ (dev.initialized # 1 /\ dev'.initialized = 1)
            => max_m10s_init_validate_ack]_vars

\* On a Ready instance max_m10s_read has failed on the bus and the
\* instance is still Ready.
C36_Witness ==
    /\ pc = PcIdle
    /\ ret = [op |-> "read", status |-> UBLOX_I2C_ERROR]
    /\ pre.initialized = 1
    /\ dev.initialized = 1
    /\ calls[1].hal = HAL_ERROR

\* ---------------------------------------------------------------------
\* Value widths of the config builders
\* ---------------------------------------------------------------------

\* C37 as claimed: ubx_prepare_config_cmd_by_size returns non-zero only for
\* the value widths 1, 2 and 4, so every frame a config builder produces
\* has a length field in {9, 10, 12} and a total size in {17, 18, 20};
\* widths 0 and 3 are rejected with return value 0.
C37_OnlyWidthsOneTwoFour ==
    cfrm.op \in ConfigOps =>
        /\ cfrm.size # 0 =>
              /\ cfrm.value_size \in {1, 2, 4}
              /\ FrameLen(cbuf) \in {9, 10, 12}
              /\ cfrm.size \in {17, 18, 20}
        /\ cfrm.value_size \in {0, 3} => cfrm.size = 0

\* ---------------------------------------------------------------------
\* The registration after a failed timer_delay_ms_it
\* ---------------------------------------------------------------------

\* C38 as claimed: whenever timer_delay_ms_it returns an error, no callback
\* of that call is left registered.  A call rejected for a null timer, a
\* delay above 1000 ms or a null callback leaves the registered (callback,
\* context) pair unchanged, and a call whose timer start fails does not
\* leave its (callback, context) pair registered for a later TIM2 elapsed
\* event to invoke.
C38_NoCallbackLeftAfterError ==
    [][/\ \A a \in DelayArgs :
            (~DelayArgsValid(a.htim, a.delay_ms, a.callback) /\ timer_delay_ms_it_enter(a))
                => /\ tlog'[Len(tlog')].status = HAL_ERROR
                   /\ UNCHANGED <<g_delay_callback, g_delay_context>>
       /\ (timer_delay_ms_it_start /\ tlog'[Len(tlog')].status = HAL_ERROR)
            => <<g_delay_callback', g_delay_context'>> # <<tpc.callback, tpc.context>>]_vars

\* ---------------------------------------------------------------------
\* i2c_wait_for_complete
\* ---------------------------------------------------------------------

\* i2c_wait_for_complete returns `status` in this step.
WaitReturns(status) == wpc.at # "done" /\ wpc'.at = "done" /\ wpc'.status = status

\* C39: i2c_wait_for_complete returns UBLOX_OK only on reading the bus
\* state READY, and UBLOX_TIMEOUT only when the state it read was not READY
\* and more than 1000 ticks have passed since entry; the elapsed time it
\* computes is the number of ticks counted since entry also when the tick
\* counter has wrapped to 0 during the wait; and with the tick advancing
\* the call always returns.
C39_WaitForComplete ==
    /\ [][/\ WaitReturns(UBLOX_OK) => i2c.state = "READY" /\ wpc'.seen = "READY"
          /\ WaitReturns(UBLOX_TIMEOUT) => wpc.seen # "READY" /\ waited > 1000]_vars
    /\ [](wpc.at \in {"get_state", "get_tick"}
            => Sub32(uwTick, wpc.start_time) = <<0, waited>>)
    /\ (wpc.at = "get_state") ~> (wpc.at = "done")

\* The wait was entered 600 ticks before the counter wrapped to 0 and has
\* returned UBLOX_TIMEOUT 1001 ticks later, at tick 401.
C39_Witness ==
    /\ wpc.at = "done"
    /\ wpc.status = UBLOX_TIMEOUT
    /\ wpc.start_time = <<Half - 1, Half - 600>>
    /\ uwTick = <<0, 401>>
    /\ waited = 1001
====
